---- MODULE Spec2Model ----
(***************************************************************************)
(* Diagram connectivity engine of the DAG editor: the three-colour DFS     *)
(* cycle detector (src/cycle_detector.py) and the arrow geometry of        *)
(* src/widget/arrow.py (boundary anchors, parallel-group detection, curve  *)
(* assignment, self-loop placement) together with the host operations that *)
(* trigger them (src/widget/node.py, src/core/undo_commands.py).           *)
(*                                                                         *)
(* Modelling conventions:                                                  *)
(*  - Node positions are grid intersections (multiples of GridSize) and    *)
(*    nodes are 80 x 40, so every centre-to-centre ray used here crosses a *)
(*    straight edge of the rounded rectangle; the corner arcs are kept as  *)
(*    the chords _get_rounded_rect_segments approximates them with.        *)
(*  - Lengths are never rounded: comparisons against a length are done on  *)
(*    squares, and Bezier control points are kept in the exact form        *)
(*    b/10 + m/sqrt(n).                                                    *)
(*  - scene.items() is the stacking order (last added arrow first);        *)
(*    scene.items(area) returns the items whose current bounding rectangle *)
(*    overlaps the area.                                                   *)
(*  - The Arrow objects exist from the start, default-constructed and      *)
(*    outside the scene; the operations put them into the scene, connect   *)
(*    them and take them out again.                                        *)
(***************************************************************************)
EXTENDS Integers, Sequences, FiniteSets, TLC

\* ------------------------------------------------------------------ bounds
\* Number of node objects that exist.
NumNodes == 3
\* Longest `arrows` argument handed to find_cycles.
MaxCycleArrows == 4

None == 0
NodeIds == 1..NumNodes

Range(s) == {s[i] : i \in 1..Len(s)}

\* Sequences over S of length at most n.
SeqUpTo(S, n) == UNION {[1..k -> S] : k \in 0..n}

VARIABLES
    \* ---- CycleDetector (src/cycle_detector.py)
    cd_nodes,       \* the `nodes` argument of find_cycles
    cd_arrows,      \* the `arrows` argument of find_cycles
    node_states,    \* self.node_states
    cycles,         \* self.cycles
    adjacency,      \* the adjacency list built by _build_adjacency_list
    current_path,   \* the list threaded through _dfs_visit
    stack,          \* the recursion of _dfs_visit: <<node, next neighbour index>>
    root,           \* index of the `for node in nodes` loop of find_cycles
    pc,             \* position of the find_cycles call
    cycle_nodes,    \* the `cycle_nodes` argument of the last get_cycle_arrows
    cycle_arrows,   \* what that call returned: positions in `arrows`
    \* ---- the scene and its arrows (src/widget, src/core/undo_commands.py)
    scene_nodes,    \* the Object nodes that are in the scene
    positions,      \* node.pos() of every node
    sizes,          \* <<width, height>> of every node's boundingRect
    scene_items,    \* the arrows in the scene, in the order they were added
    arrow_fields,   \* the fields of every Arrow object
    addr,           \* id(arrow), the sort key of the curve assignment
    conn,           \* per node, the slots connected to node_moved
    last_placement, \* the last run of _find_best_loop_side in the last operation
    last_op,        \* the last operation performed
    steps,          \* number of operations performed on the scene
    grid_size,      \* scene._grid_size
    undo_stack,     \* the commands of app.undo_stack
    undo_index,     \* app.undo_stack.index(): the commands that are done
    \* ---- one call of a geometry function on given arguments
    call            \* [fn, args, result]; fn = "none" before the call

cdVars == <<cd_nodes, cd_arrows, node_states, cycles, adjacency, current_path,
            stack, root, pc, cycle_nodes, cycle_arrows>>

sceneVars == <<scene_nodes, positions, sizes, scene_items, arrow_fields, addr,
               conn, last_placement, last_op, steps, grid_size, undo_stack,
               undo_index>>

vars == <<cdVars, sceneVars, call>>

\* No geometry function was called on its own.
NoCall == [fn |-> "none", args |-> <<>>, result |-> <<>>]

\* The scene while only the cycle detector runs: empty.
SceneIdle ==
    /\ scene_nodes = {}
    /\ positions = <<>>
    /\ sizes = <<>>
    /\ scene_items = <<>>
    /\ arrow_fields = <<>>
    /\ addr = <<>>
    /\ conn = <<>>
    /\ last_placement = <<>>
    /\ last_op = "none"
    /\ steps = 0
    /\ grid_size = 0
    /\ undo_stack = <<>>
    /\ undo_index = 0

\* ------------------------------------------------------- CycleDetector
\* The node lists: scene items are distinct objects, so a list holds no
\* node twice; node identities are interchangeable, so the list order is
\* fixed and the arrows range over every orientation.
NodeLists == {SubSeq(<<1, 2, 3, 4, 5>>, 1, k) : k \in 0..NumNodes}

\* An arrow as find_cycles reads it: both ends set, or an arrow under
\* construction (Arrow(start_node, None)).
CycleArrowValues ==
    [start_node : NodeIds, end_node : NodeIds \cup {None}]

\* `arrow._start_node and arrow._end_node and arrow._start_node in nodes and
\* arrow._end_node in nodes`
edge_ok(nodes, a) ==
    /\ a.start_node # None
    /\ a.end_node # None
    /\ a.start_node \in Range(nodes)
    /\ a.end_node \in Range(nodes)

\* The adjacency list with an arrow's ends swapped in the filter.
edges_from_swapped(nodes, arrows, n) ==
    SelectSeq(arrows, LAMBDA a : edge_ok(nodes, a) /\ a.end_node = n)

edges_from(nodes, arrows, n) ==
    SelectSeq(arrows, LAMBDA a : edge_ok(nodes, a) /\ a.start_node = n)

build_adjacency_list(nodes, arrows) ==
    [n \in Range(nodes) |->
        [i \in 1..Len(edges_from(nodes, arrows, n)) |->
            edges_from(nodes, arrows, n)[i].end_node]]

\* The cycle taken from the start of the path.
index_of_path_start(s, x) == 1

\* list.index(x): the first position of x.
index_of(s, x) == CHOOSE i \in 1..Len(s) : s[i] = x /\ \A j \in 1..(i - 1) : s[j] # x

\* The entry of _dfs_visit without `current_path.append(node)`.
dfs_enter_unlisted(node) ==
    /\ node_states' = [node_states EXCEPT ![node] = "GRAY"]
    /\ current_path' = current_path

\* The call _dfs_visit(node, adjacency, current_path) up to its loop.
dfs_enter(node) ==
    /\ node_states' = [node_states EXCEPT ![node] = "GRAY"]
    /\ current_path' = Append(current_path, node)

CdInit ==
    /\ cd_nodes \in NodeLists
    /\ cd_arrows \in SeqUpTo(CycleArrowValues, MaxCycleArrows)
    /\ node_states = <<>>
    /\ cycles = <<>>
    /\ adjacency = <<>>
    /\ current_path = <<>>
    /\ stack = <<>>
    /\ root = 0
    /\ pc = "idle"
    /\ cycle_nodes = <<>>
    /\ cycle_arrows = <<>>
    /\ SceneIdle
    /\ call = NoCall

\* find_cycles up to its root loop: reset, colour every node WHITE, build
\* the adjacency list.
FindCyclesBegin ==
    /\ pc = "idle"
    /\ node_states' = [n \in Range(cd_nodes) |-> "WHITE"]
    /\ cycles' = <<>>
    /\ adjacency' = build_adjacency_list(cd_nodes, cd_arrows)
    /\ current_path' = <<>>
    /\ stack' = <<>>
    /\ root' = 1
    /\ pc' = "roots"
    /\ UNCHANGED <<cd_nodes, cd_arrows>>
    /\ UNCHANGED <<cycle_nodes, cycle_arrows>>
    /\ UNCHANGED <<sceneVars, call>>

\* One iteration of `for node in nodes` that starts a DFS.
RootVisit ==
    /\ pc = "roots"
    /\ stack = <<>>
    /\ root <= Len(cd_nodes)
    /\ node_states[cd_nodes[root]] = "WHITE"
    /\ dfs_enter(cd_nodes[root])
    /\ stack' = <<<<cd_nodes[root], 1>>>>
    /\ root' = root + 1
    /\ UNCHANGED <<cd_nodes, cd_arrows, cycles, adjacency, pc>>
    /\ UNCHANGED <<cycle_nodes, cycle_arrows>>
    /\ UNCHANGED <<sceneVars, call>>

\* One iteration of `for node in nodes` on a node already visited.
RootSkip ==
    /\ pc = "roots"
    /\ stack = <<>>
    /\ root <= Len(cd_nodes)
    /\ node_states[cd_nodes[root]] # "WHITE"
    /\ root' = root + 1
    /\ UNCHANGED <<cd_nodes, cd_arrows, node_states, cycles, adjacency,
                   current_path, stack, pc>>
    /\ UNCHANGED <<cycle_nodes, cycle_arrows>>
    /\ UNCHANGED <<sceneVars, call>>

\* The loop is over: return self.cycles.
FindCyclesReturn ==
    /\ pc = "roots"
    /\ stack = <<>>
    /\ root > Len(cd_nodes)
    /\ pc' = "done"
    /\ UNCHANGED <<cd_nodes, cd_arrows, node_states, cycles, adjacency,
                   current_path, stack, root>>
    /\ UNCHANGED <<cycle_nodes, cycle_arrows>>
    /\ UNCHANGED <<sceneVars, call>>

top == stack[Len(stack)]
top_node == top[1]
top_neighbor == adjacency[top[1]][top[2]]
advance_top == [stack EXCEPT ![Len(stack)] = <<top[1], top[2] + 1>>]

\* `if self.node_states[neighbor] == NodeState.GRAY`: a back edge.
DfsBackEdge ==
    /\ pc = "roots"
    /\ stack # <<>>
    /\ top[2] <= Len(adjacency[top_node])
    /\ node_states[top_neighbor] = "GRAY"
    /\ cycles' = Append(cycles,
            SubSeq(current_path, index_of(current_path, top_neighbor),
                   Len(current_path)) \o <<top_neighbor>>)
    /\ stack' = advance_top
    /\ UNCHANGED <<cd_nodes, cd_arrows, node_states, adjacency, current_path,
                   root, pc>>
    /\ UNCHANGED <<cycle_nodes, cycle_arrows>>
    /\ UNCHANGED <<sceneVars, call>>

\* `elif self.node_states[neighbor] == NodeState.WHITE`: recurse.
DfsRecurse ==
    /\ pc = "roots"
    /\ stack # <<>>
    /\ top[2] <= Len(adjacency[top_node])
    /\ node_states[top_neighbor] = "WHITE"
    /\ dfs_enter(top_neighbor)
    /\ stack' = Append(advance_top, <<top_neighbor, 1>>)
    /\ UNCHANGED <<cd_nodes, cd_arrows, cycles, adjacency, root, pc>>
    /\ UNCHANGED <<cycle_nodes, cycle_arrows>>
    /\ UNCHANGED <<sceneVars, call>>

\* A BLACK neighbour: neither branch is taken.
DfsSkipBlack ==
    /\ pc = "roots"
    /\ stack # <<>>
    /\ top[2] <= Len(adjacency[top_node])
    /\ node_states[top_neighbor] = "BLACK"
    /\ stack' = advance_top
    /\ UNCHANGED <<cd_nodes, cd_arrows, node_states, cycles, adjacency,
                   current_path, root, pc>>
    /\ UNCHANGED <<cycle_nodes, cycle_arrows>>
    /\ UNCHANGED <<sceneVars, call>>

\* The return of _dfs_visit without `self.node_states[node] = BLACK`.
DfsFinishLeavingGray ==
    /\ pc = "roots"
    /\ stack # <<>>
    /\ top[2] > Len(adjacency[top_node])
    /\ current_path' = SubSeq(current_path, 1, Len(current_path) - 1)
    /\ stack' = SubSeq(stack, 1, Len(stack) - 1)
    /\ UNCHANGED <<cd_nodes, cd_arrows, node_states, cycles, adjacency, root, pc>>
    /\ UNCHANGED <<cycle_nodes, cycle_arrows>>
    /\ UNCHANGED <<sceneVars, call>>

\* After the loop: colour the node BLACK, pop it from the path, return.
DfsFinish ==
    /\ pc = "roots"
    /\ stack # <<>>
    /\ top[2] > Len(adjacency[top_node])
    /\ node_states' = [node_states EXCEPT ![top_node] = "BLACK"]
    /\ current_path' = SubSeq(current_path, 1, Len(current_path) - 1)
    /\ stack' = SubSeq(stack, 1, Len(stack) - 1)
    /\ UNCHANGED <<cd_nodes, cd_arrows, cycles, adjacency, root, pc>>
    /\ UNCHANGED <<cycle_nodes, cycle_arrows>>
    /\ UNCHANGED <<sceneVars, call>>

\* The inner loop of get_cycle_arrows taking the last matching arrow.
first_arrow_last(arrows, start_node, end_node) ==
    LET hits == {i \in 1..Len(arrows) :
                    arrows[i].start_node = start_node /\ arrows[i].end_node = end_node}
    IN IF hits = {} THEN <<>>
       ELSE <<CHOOSE i \in hits : \A k \in hits : k <= i>>

\* The inner loop of get_cycle_arrows: the first arrow from start_node to
\* end_node is appended, and the loop is left; no arrow, nothing appended.
first_arrow(arrows, start_node, end_node) ==
    LET hits == {i \in 1..Len(arrows) :
                    arrows[i].start_node = start_node /\ arrows[i].end_node = end_node}
    IN IF hits = {} THEN <<>>
       ELSE <<CHOOSE i \in hits : \A k \in hits : i <= k>>

\* the loop `for i in range(len(cycle_nodes) - 1)` from pair i on
RECURSIVE pair_arrows(_, _, _)
pair_arrows(nodes, arrows, i) ==
    IF i > Len(nodes) - 1 THEN <<>>
    ELSE first_arrow(arrows, nodes[i], nodes[i + 1]) \o pair_arrows(nodes, arrows, i + 1)

\* CycleDetector.get_cycle_arrows; an arrow is named by its position in
\* `arrows`.
get_cycle_arrows(nodes, arrows) ==
    IF Len(nodes) < 2 THEN <<>> ELSE pair_arrows(nodes, arrows, 1)

\* The node lists get_cycle_arrows is called with: a cycle find_cycles
\* returned, the empty list, a list of one node.
CycleNodeLists == Range(cycles) \cup {<<>>} \cup {<<n>> : n \in Range(cd_nodes)}

\* get_cycle_arrows(cycle_nodes, arrows) after find_cycles has returned
GetCycleArrows ==
    /\ pc \in {"done", "arrows"}
    /\ \E c \in CycleNodeLists :
          /\ cycle_nodes' = c
          /\ cycle_arrows' = get_cycle_arrows(c, cd_arrows)
    /\ pc' = "arrows"
    /\ UNCHANGED <<cd_nodes, cd_arrows, node_states, cycles, adjacency,
                   current_path, stack, root>>
    /\ UNCHANGED <<sceneVars, call>>

CdNext ==
    \/ GetCycleArrows
    \/ FindCyclesBegin
    \/ RootVisit
    \/ RootSkip
    \/ FindCyclesReturn
    \/ DfsBackEdge
    \/ DfsRecurse
    \/ DfsSkipBlack
    \/ DfsFinish

SpecCycles == CdInit /\ [][CdNext]_vars

\* One call of find_cycles run to its end: the call is a sequential
\* computation, so a step that can be taken is taken.
FindCyclesRun ==
    \/ RootVisit
    \/ RootSkip
    \/ FindCyclesReturn
    \/ DfsBackEdge
    \/ DfsRecurse
    \/ DfsSkipBlack
    \/ DfsFinish

FindCyclesNext ==
    \/ FindCyclesBegin
    \/ FindCyclesRun

SpecFindCycles == CdInit /\ [][FindCyclesNext]_vars /\ WF_vars(FindCyclesRun)

\* ------------------------------------------------ scene geometry: numbers
\* `grid_size = 150` of Node.itemChange: every position a node takes is
\* snapped to a multiple of it.
GridSize == 150
base_offset == 30
arrow_thickness == 6
max_perp_distance == 50
min_overlap_threshold == 10
corner_radius == 10
arrow_head_size == 7
pen_width == 2
LoopGap == 10

Abs(x) == IF x < 0 THEN -x ELSE x
Max2(a, b) == IF a >= b THEN a ELSE b
Min2(a, b) == IF a <= b THEN a ELSE b

RECURSIVE Gcd(_, _)
Gcd(a, b) == IF b = 0 THEN a ELSE Gcd(b, a % b)

\* The greatest common divisor of the absolute values of a set of integers
\* (0 for a set of zeros).
RECURSIVE GcdOf(_)
GcdOf(S) ==
    IF S = {} THEN 0
    ELSE LET x == CHOOSE y \in S : TRUE IN Gcd(Abs(x), GcdOf(S \ {x}))

Dot(u, v) == u[1] * v[1] + u[2] * v[2]
Sub(p, q) == <<p[1] - q[1], p[2] - q[2]>>
Add(p, q) == <<p[1] + q[1], p[2] + q[2]>>
NormSq(v) == Dot(v, v)
\* v divided by k, for k a common divisor of its components.
Shrink(v, k) == <<v[1] \div k, v[2] \div k>>

NoHit == <<0, 0>>
NoLine == [start |-> <<0, 0>>, end |-> <<0, 0>>, vector |-> <<0, 0>>, none |-> TRUE]

\* QPointF.__bool__: a null point is falsy.
Truthy(p) == p # <<0, 0>>

\* ---------------------------------------------- ParallelGroupDetector
\* The tests below compare lengths |v| = sqrt(x^2 + y^2) and projections
\* p.v / |v| with thresholds.  They are evaluated exactly: an inequality
\* a < c * |v| between non-negative sides is decided as a^2 < c^2 * |v|^2.
\* Every point of both lines is taken relative to line1's start and divided
\* by the common divisor k of all coordinates (node positions are multiples
\* of GridSize), which changes no comparison once the thresholds carry the
\* factor k, and keeps the squares small.
LineScale(line1, line2) ==
    LET w == Sub(line2.start, line1.start)
        k == GcdOf({line1.vector[1], line1.vector[2],
                    line2.vector[1], line2.vector[2], w[1], w[2]})
    IN IF k = 0 THEN 1 ELSE k

\* line relative to origin o, divided by k.
Rel(line, o, k) ==
    [start |-> Shrink(Sub(line.start, o), k),
     end |-> Shrink(Sub(line.end, o), k),
     vector |-> Shrink(line.vector, k)]

\* _segments_overlap_in_projection, the four projections being q / ref_len
\* with ref_len = sqrt(ref_sq) / k... all lengths in units of k.
segments_overlap_in_projection(seg1_min, seg1_max, seg2_min, seg2_max, ref_sq, k) ==
    LET overlap_start == Max2(seg1_min, seg2_min)
        overlap_end == Min2(seg1_max, seg2_max)
        overlap_length == overlap_end - overlap_start
        segment1_length == Abs(seg1_max - seg1_min)
        segment2_length == Abs(seg2_max - seg2_min)
        \* |q| * k / sqrt(ref_sq) < c
        Below(q, c) == k * k * q * q < c * c * ref_sq
    IN IF /\ Below(seg1_min - seg2_min, 5)
          /\ Below(seg1_max - seg2_max, 5)
          /\ Below(segment1_length - segment2_length, 10)
       THEN TRUE
       ELSE /\ overlap_length > 0
            /\ k * k * overlap_length * overlap_length
                  > min_overlap_threshold * min_overlap_threshold * ref_sq

\* The perpendicular test with `<' for `<='.
segments_strictly_closer(l1, l2, ref, k) ==
    k * k * (Dot(Add(l1.start, l1.end), <<-ref[2], ref[1]>>)
                - Dot(Add(l2.start, l2.end), <<-ref[2], ref[1]>>))
          * (Dot(Add(l1.start, l1.end), <<-ref[2], ref[1]>>)
                - Dot(Add(l2.start, l2.end), <<-ref[2], ref[1]>>))
        < 4 * max_perp_distance * max_perp_distance * NormSq(ref)

\* _segments_close_enough_perpendicularly: perp_distance <= 50, the
\* midpoints doubled to stay integral.
segments_close_enough_perpendicularly(l1, l2, ref, k) ==
    LET perp == <<-ref[2], ref[1]>>
        mid1x2 == Add(l1.start, l1.end)
        mid2x2 == Add(l2.start, l2.end)
        diffx2 == Dot(mid1x2, perp) - Dot(mid2x2, perp)
    IN k * k * diffx2 * diffx2
          <= 4 * max_perp_distance * max_perp_distance * NormSq(ref)

\* The projections of both segments on the reference direction ref
\* (project_point) and the two tests made on them.
projections_overlap(l1, l2, ref, k) ==
    /\ segments_overlap_in_projection(
           Min2(Dot(l1.start, ref), Dot(l1.end, ref)),
           Max2(Dot(l1.start, ref), Dot(l1.end, ref)),
           Min2(Dot(l2.start, ref), Dot(l2.end, ref)),
           Max2(Dot(l2.start, ref), Dot(l2.end, ref)),
           NormSq(ref), k)
    /\ segments_close_enough_perpendicularly(l1, l2, ref, k)

\* _lines_overlap on the reduced lines: the longer vector is the reference.
reduced_lines_overlap(l1, l2, k) ==
    IF NormSq(l1.vector) = 0 \/ NormSq(l2.vector) = 0 THEN FALSE
    ELSE projections_overlap(l1, l2,
            IF NormSq(l1.vector) >= NormSq(l2.vector) THEN l1.vector ELSE l2.vector,
            k)

lines_overlap(line1, line2) ==
    reduced_lines_overlap(Rel(line1, line1.start, LineScale(line1, line2)),
                          Rel(line2, line1.start, LineScale(line1, line2)),
                          LineScale(line1, line2))

\* abs(a.x - b.x) < 1 and abs(a.y - b.y) < 1
Within1(a, b) == Abs(a[1] - b[1]) < 1 /\ Abs(a[2] - b[2]) < 1

\* The parallelism test of _lines_are_parallel_and_overlapping on the
\* reduced vectors: neither length is below 1e-6 (of integer vectors: the
\* zero vector) and cross_product <= 1e-3 * v1_length * v2_length.
vectors_parallel(v1, v2) ==
    /\ NormSq(v1) # 0
    /\ NormSq(v2) # 0
    /\ (v1[1] * v2[2] - v1[2] * v2[1]) * (v1[1] * v2[2] - v1[2] * v2[1])
          <= (NormSq(v1) * NormSq(v2)) \div 1000000

\* _lines_are_parallel_and_overlapping; a line is NoLine (the code's None)
\* or a record [start, end, vector].
lines_are_parallel_and_overlapping(line1, line2) ==
    IF line1 = NoLine \/ line2 = NoLine THEN FALSE
    ELSE IF Within1(line1.start, line2.start) /\ Within1(line1.end, line2.end)
         THEN TRUE
    ELSE IF Within1(line1.start, line2.end) /\ Within1(line1.end, line2.start)
         THEN TRUE
    ELSE IF ~vectors_parallel(Shrink(line1.vector, LineScale(line1, line2)),
                              Shrink(line2.vector, LineScale(line1, line2)))
         THEN FALSE
    ELSE lines_overlap(line1, line2)

\* --------------------------------------------------- BoundaryAnchorSolver
\* _get_rounded_rect_segments.  QPainterPath.addRoundedRect followed by
\* toFillPolygon yields the four straight edges of the rectangle joined by
\* flattened corner arcs; each arc is represented here by its chord.  The
\* polygon is closed (its last point is its first), so the code's closing
\* segment (polygon[-1], polygon[0]) is a segment of length zero.
get_rounded_rect_segments(l, t, w, h, cr) ==
    LET r == l + w
        b == t + h
        poly == << <<l + cr, t>>, <<r - cr, t>>, <<r, t + cr>>, <<r, b - cr>>,
                   <<r - cr, b>>, <<l + cr, b>>, <<l, b - cr>>, <<l, t + cr>>,
                   <<l + cr, t>> >>
    IN [i \in 1..Len(poly) |->
          IF i < Len(poly) THEN <<poly[i], poly[i + 1]>>
          ELSE <<poly[Len(poly)], poly[1]>>]

\* _line_segment_intersection(p1, p1 + s * d, p3, p4) for a positive scale s
\* (the code uses s = 1000 / |d|).  The result is NoHit (the code's None) or
\* the pair <<tn, dn>>, dn > 0, for the point p1 + (tn / dn) * d; u does not depend
\* on s, and t * s = tn / dn.
line_segment_intersection(p1, d, p3, p4) ==
    LET e == Sub(p3, p4)
        f == Sub(p1, p3)
        denominator == (-d[1]) * e[2] - (-d[2]) * e[1]
        tnum == f[1] * e[2] - f[2] * e[1]
        unum == -((-d[1]) * f[2] - (-d[2]) * f[1])
        sg == IF denominator < 0 THEN -1 ELSE 1
    IN IF denominator = 0 THEN NoHit
       \* 0 <= u <= 1
       ELSE IF sg * unum >= 0 /\ sg * unum <= sg * denominator
            THEN <<sg * tnum, sg * denominator>>
       ELSE NoHit

\* The loop of _find_closest_point_on_boundary from segment i on, `best'
\* being NoHit (min_distance = inf) or the nearest hit so far.
RECURSIVE closest_from(_, _, _, _, _)
closest_from(center, d, segs, i, best) ==
    IF i > Len(segs) THEN best
    ELSE LET hit == line_segment_intersection(center, d, segs[i][1], segs[i][2])
             better == /\ hit # NoHit
                       \* `if intersection:` a QPointF at (0, 0) is falsy
                       /\ <<hit[2] * center[1] + hit[1] * d[1],
                             hit[2] * center[2] + hit[1] * d[2]>> # <<0, 0>>
                       /\ hit[1] > 0                              \* dot_product > 0
                       /\ \/ best = NoHit                         \* distance < min_distance
                          \/ hit[1] * best[2] < best[1] * hit[2]
         IN closest_from(center, d, segs, i + 1, IF better THEN hit ELSE best)

\* _find_closest_point_on_boundary falling back on the target.
find_closest_point_or_target(center, target_center, segs) ==
    LET d == Sub(target_center, center)
        best == closest_from(center, d, segs, 1, NoHit)
    IN IF d = <<0, 0>> \/ best = NoHit THEN target_center
       ELSE <<center[1] + (best[1] * d[1]) \div best[2],
              center[2] + (best[1] * d[2]) \div best[2]>>

find_closest_point_on_boundary(center, target_center, segs) ==
    LET d == Sub(target_center, center)
        best == closest_from(center, d, segs, 1, NoHit)
    IN IF d = <<0, 0>> \/ best = NoHit THEN center
       ELSE <<center[1] + (best[1] * d[1]) \div best[2],
              center[2] + (best[1] * d[2]) \div best[2]>>

\* _get_edge_intersection for a node at node_pos of size <<w, h>>, whose
\* boundingRect is centred on its position.
get_edge_intersection(center, target_center, node_pos, size) ==
    IF target_center = center THEN center
    ELSE find_closest_point_on_boundary(center, target_center,
            get_rounded_rect_segments(node_pos[1] - size[1] \div 2,
                                      node_pos[2] - size[2] \div 2,
                                      size[1], size[2], corner_radius))

\* ------------------------------------------------------------ arrows
\* A point b/10 + m/sqrt(n), kept exact: b10 is ten times the rational part
\* (start + t * (end - start) with t = 0.3 or 0.7), m the curve offset
\* times a primitive integer vector u perpendicular to the arrow, n = |u|^2.
SymPoint(b10, m, n) ==
    [b10 |-> b10, m |-> m, n |-> IF m = <<0, 0>> THEN 1 ELSE n]
Plain(p) == SymPoint(<<10 * p[1], 10 * p[2]>>, <<0, 0>>, 1)

\* x / sqrt(n) < y, for integers x, y and n >= 1
RootLess(x, y, n) ==
    IF n = 1 THEN x < y
    ELSE IF x < 0 THEN y >= 0 \/ x * x > y * y * n
    ELSE y > 0 /\ x * x < y * y * n

\* coordinate i of the point q, plus the integer e, is below / above c
CoordBelow(q, i, e, c) == RootLess(10 * q.m[i], 10 * (c - e) - q.b10[i], q.n)
CoordAbove(q, i, e, c) == RootLess(-10 * q.m[i], q.b10[i] - 10 * (c - e), q.n)

Primitive(v) ==
    LET g == Gcd(Abs(v[1]), Abs(v[2])) IN IF g = 0 THEN v ELSE Shrink(v, g)

\* the value of _curve_direction when it is None (or not yet set)
NoDir == <<0, 0>>

\* Arrow.__init__, before the signal connections and update_position.
NewArrow(start_node, end_node) ==
    [start_node |-> start_node, end_node |-> end_node,
     start_point |-> <<0, 0>>, end_point |-> <<100, 0>>,
     is_self_loop |-> FALSE, loop_center |-> <<0, 0>>, loop_radius |-> 50,
     is_curved |-> FALSE, curve_offset |-> 0, curve_direction |-> NoDir,
     control_point_1 |-> Plain(<<0, 0>>), control_point_2 |-> Plain(<<0, 0>>)]

\* A rectangle is [l, t, r, b]; QRectF(x, y, w, h) is Rect(x, y, w, h).
Rect(x, y, w, h) == [l |-> x, t |-> y, r |-> x + w, b |-> y + h]

\* Object.boundingRect mapped to the scene: centred on the position.
node_scene_rect(W, n) ==
    Rect(W.pos[n][1] - W.size[n][1] \div 2, W.pos[n][2] - W.size[n][2] \div 2,
         W.size[n][1], W.size[n][2])

RectsIntersect(r1, r2) ==
    r1.l < r2.r /\ r2.l < r1.r /\ r1.t < r2.b /\ r2.t < r1.b

\* Arrow.boundingRect: the points whose bounding box, grown by `extra',
\* is the rectangle (none when a point is falsy: the empty rectangle).
bounding_points(ar) ==
    IF ~Truthy(ar.start_point) \/ ~Truthy(ar.end_point) THEN {}
    ELSE IF ar.is_self_loop
         THEN {Plain(<<ar.loop_center[1] - ar.loop_radius,
                       ar.loop_center[2] - ar.loop_radius>>),
               Plain(<<ar.loop_center[1] + ar.loop_radius,
                       ar.loop_center[2] + ar.loop_radius>>)}
    ELSE IF ar.is_curved
         THEN {Plain(ar.start_point), Plain(ar.end_point),
               ar.control_point_1, ar.control_point_2}
    ELSE {Plain(ar.start_point), Plain(ar.end_point)}

\* The arrow (at scene position (0, 0)) is returned by scene.items(area):
\* its bounding rectangle and the area overlap.
arrow_intersects(ar, area) ==
    LET pts == bounding_points(ar)
        extra == arrow_head_size + pen_width \div 2
    IN /\ \E q \in pts : CoordBelow(q, 1, -extra, area.r)    \* min_x - extra < r
       /\ \E q \in pts : CoordAbove(q, 1, extra, area.l)     \* max_x + extra > l
       /\ \E q \in pts : CoordBelow(q, 2, -extra, area.b)
       /\ \E q \in pts : CoordAbove(q, 2, extra, area.t)

\* A world W is the part of the program state the engine reads:
\*   W.nodes  the Object nodes in the scene      W.pos, W.size  per node
\*   W.items  the arrows in the scene, in insertion order
\*   W.A      the fields of every arrow          W.addr  id(arrow)
\*   W.conn   the node_moved connections         W.placed (see place_loop)
Reverse(q) == [i \in 1..Len(q) |-> q[Len(q) + 1 - i]]

\* The arrows of scene.items(): descending stacking order, all arrows
\* having the same Z value, so the last one added comes first.
scene_arrows(W) == Reverse(W.items)

arrow_in_scene(W, a) == \E i \in 1..Len(W.items) : W.items[i] = a

get_arrow_line(W, a) ==
    IF W.A[a].start_node = None \/ W.A[a].end_node = None THEN NoLine
    ELSE [start |-> W.pos[W.A[a].start_node],
          end |-> W.pos[W.A[a].end_node],
          vector |-> Sub(W.pos[W.A[a].end_node], W.pos[W.A[a].start_node])]

find_parallel_arrows(W, a) ==
    IF ~arrow_in_scene(W, a) \/ W.A[a].start_node = None \/ W.A[a].end_node = None
    THEN <<>>
    ELSE SelectSeq(scene_arrows(W),
            LAMBDA item : /\ item # a
                          /\ W.A[item].start_node # None
                          /\ W.A[item].end_node # None
                          /\ lines_are_parallel_and_overlapping(
                                 get_arrow_line(W, a), get_arrow_line(W, item)))

\* The visual test with the grouping distance for the arrow thickness.
perp_distance_below_max(l1, l2, k) ==
    LET direction == l1.vector
        diffx2 == Sub(Add(l2.start, l2.end), Add(l1.start, l1.end))
        across == diffx2[1] * (-direction[2]) + diffx2[2] * direction[1]
    IN /\ NormSq(direction) # 0
       /\ k * k * across * across
             < 4 * max_perp_distance * max_perp_distance * NormSq(direction)

\* perp_distance < arrow_thickness for some arrow of others that is
\* parallel and overlapping; the distance is k * |D . p| / (2 * |dir|) in
\* the reduced coordinates of lines_overlap, D the doubled midpoint gap.
perp_distance_below(l1, l2, k) ==
    LET direction == l1.vector
        diffx2 == Sub(Add(l2.start, l2.end), Add(l1.start, l1.end))
        across == diffx2[1] * (-direction[2]) + diffx2[2] * direction[1]
    IN /\ NormSq(direction) # 0
       /\ k * k * across * across
             < 4 * arrow_thickness * arrow_thickness * NormSq(direction)

\* one turn of the loop of _arrows_would_visually_overlap
lines_visually_overlap(my_line, other_line) ==
    /\ lines_are_parallel_and_overlapping(my_line, other_line)
    /\ perp_distance_below(
           Rel(my_line, my_line.start, LineScale(my_line, other_line)),
           Rel(other_line, my_line.start, LineScale(my_line, other_line)),
           LineScale(my_line, other_line))

arrows_would_visually_overlap(W, a, others) ==
    \E i \in 1..Len(others) :
        lines_visually_overlap(get_arrow_line(W, a), get_arrow_line(W, others[i]))

arrows_point_opposite_directions(W, a, other) ==
    Dot(get_arrow_line(W, a).vector, get_arrow_line(W, other).vector) < 0

get_direction_factor(W, a) ==
    get_arrow_line(W, a).vector[1] + get_arrow_line(W, a).vector[2] * 1000

same_endpoints(x, y) ==
    \/ x.start_node = y.start_node /\ x.end_node = y.end_node
    \/ x.start_node = y.end_node /\ x.end_node = y.start_node

\* list.index(a) of the group sorted by id: the members with a smaller id
sorted_index(W, group, a) ==
    Cardinality({i \in 1..Len(group) : W.addr[group[i]] < W.addr[a]})

\* _calculate_bezier_control_points
calculate_bezier_control_points(ar) ==
    IF ~ar.is_curved \/ ~Truthy(ar.start_point) \/ ~Truthy(ar.end_point) THEN ar
    ELSE LET d == Sub(ar.end_point, ar.start_point)
             u == IF ar.curve_direction # NoDir THEN ar.curve_direction
                  ELSE Primitive(<<-d[2], d[1]>>)
             offset == <<u[1] * ar.curve_offset, u[2] * ar.curve_offset>>
             at(t10) == SymPoint(<<10 * ar.start_point[1] + t10 * d[1],
                                   10 * ar.start_point[2] + t10 * d[2]>>,
                                 offset, NormSq(u))
         IN [ar EXCEPT !.control_point_1 = at(3), !.control_point_2 = at(7)]

\* The spread counted from the first arrow instead of from the centre.
spread_offset_from_first(index, count) == index * base_offset

\* offset_multiplier * base_offset with
\* offset_multiplier = index - (count - 1) / 2
spread_offset(index, count) == (2 * index - (count - 1)) * (base_offset \div 2)

\* The empty-group branch without its two assignments.
straight_line_kept(ar) == ar

\* `self._is_curved = False; self._curve_offset = 0`
straight_line(ar) == [ar EXCEPT !.is_curved = FALSE, !.curve_offset = 0]

\* The two-arrow branch giving both arrows the same offset.
pair_offset_same(my_index) == base_offset

\* `base_offset if my_index == 0 else -base_offset`
pair_offset(my_index) == IF my_index = 0 THEN base_offset ELSE -base_offset

\* `self._is_curved = True; self._curve_offset = offset` (with the curve
\* direction where the branch sets one), then the control points.
curved(ar, offset, direction) ==
    calculate_bezier_control_points(
        [ar EXCEPT !.is_curved = TRUE, !.curve_offset = offset,
                   !.curve_direction = direction])

\* The offset of arrow a in the group of arrows with its endpoints.
same_endpoints_offset(W, a, same_endpoints_group) ==
    IF Len(same_endpoints_group) = 2
    THEN pair_offset(sorted_index(W, same_endpoints_group, a))
    ELSE spread_offset(sorted_index(W, same_endpoints_group, a),
                       Len(same_endpoints_group))

\* all(dot(my_vector, other_vector) >= 0) over the parallel arrows
same_direction_group(W, a, others) ==
    \A i \in 1..Len(others) :
        Dot(get_arrow_line(W, a).vector, get_arrow_line(W, others[i]).vector) >= 0

\* The offset of arrow a in a group of mixed directions.
mixed_offset(W, a, all_arrows, other_arrow) ==
    IF Len(all_arrows) = 2
    THEN IF arrows_point_opposite_directions(W, a, other_arrow)
         THEN IF get_direction_factor(W, a) > get_direction_factor(W, other_arrow)
              THEN base_offset ELSE -base_offset
         ELSE IF sorted_index(W, all_arrows, a) = 0
              THEN base_offset ELSE -base_offset
    ELSE IF get_direction_factor(W, a) < 0
         THEN -spread_offset(sorted_index(W, all_arrows, a), Len(all_arrows))
         ELSE spread_offset(sorted_index(W, all_arrows, a), Len(all_arrows))

\* The arrow's own direction, not rotated.
direction_along(my_vector) == Primitive(my_vector)

\* normalised perpendicular (-dy, dx) of the arrow's line
consistent_direction(my_vector) == Primitive(<<-my_vector[2], my_vector[1]>>)

\* _update_curve_positioning once parallel_arrows is known to be non-empty
\* and is split into same_endpoints_arrows and non_same_endpoint_arrows.
curve_among(W, a, parallel_arrows, same_endpoints_arrows, non_same_endpoint_arrows) ==
    IF Len(same_endpoints_arrows) > 0
    THEN curved(W.A[a],
                same_endpoints_offset(W, a, <<a>> \o same_endpoints_arrows), NoDir)
    ELSE IF ~arrows_would_visually_overlap(W, a, non_same_endpoint_arrows)
         THEN straight_line(W.A[a])
    ELSE IF same_direction_group(W, a, non_same_endpoint_arrows)
         THEN curved(W.A[a],
                     base_offset * (sorted_index(W, <<a>> \o parallel_arrows, a) + 1),
                     consistent_direction(get_arrow_line(W, a).vector))
    ELSE curved(W.A[a],
                mixed_offset(W, a, <<a>> \o parallel_arrows, parallel_arrows[1]),
                NoDir)

\* _update_curve_positioning given the result of _find_parallel_arrows
curve_in_group(W, a, parallel_arrows) ==
    IF Len(parallel_arrows) = 0 THEN straight_line(W.A[a])
    ELSE curve_among(W, a, parallel_arrows,
            SelectSeq(parallel_arrows, LAMBDA x : same_endpoints(W.A[a], W.A[x])),
            SelectSeq(parallel_arrows, LAMBDA x : ~same_endpoints(W.A[a], W.A[x])))

\* _update_curve_positioning of arrow a: the new fields of a.
update_curve_positioning(W, a) == curve_in_group(W, a, find_parallel_arrows(W, a))

\* ------------------------------------------------------ SelfLoopPlacer
\* the four probe areas of _find_best_loop_side, in the order of the dict
Sides == <<"top", "bottom", "left", "right">>

side_area(W, n, side) ==
    LET x == W.pos[n][1]
        y == W.pos[n][2]
        w == W.size[n][1]
        h == W.size[n][2]
        check_distance == (Max2(w, h) * 3) \div 2
    IN CASE side = "top" ->
              Rect(x - check_distance \div 2, y - check_distance,
                   w + check_distance, check_distance)
         [] side = "bottom" ->
              Rect(x - check_distance \div 2, y + h,
                   w + check_distance, check_distance)
         [] side = "left" ->
              Rect(x - check_distance, y - check_distance \div 2,
                   check_distance, h + check_distance)
         [] side = "right" ->
              Rect(x + w, y - check_distance \div 2,
                   check_distance, h + check_distance)

\* object_count: the items of scene.items(area) other than the node that
\* have a get_text attribute; Object nodes and Arrows both have one.
side_score(W, a, side) ==
    LET n == W.A[a].start_node
        area == side_area(W, n, side)
    IN Cardinality({m \in W.nodes \ {n} :
                        RectsIntersect(node_scene_rect(W, m), area)})
       + Cardinality({i \in 1..Len(W.items) :
                        arrow_intersects(W.A[W.items[i]], area)})

\* side_scores, in the order of Sides
side_scores(W, a) == [i \in 1..Len(Sides) |-> side_score(W, a, Sides[i])]

\* min(side_scores, key=side_scores.get): the first side of minimal score
first_min(scores) ==
    CHOOSE i \in 1..Len(scores) :
        /\ \A j \in 1..Len(scores) : scores[i] <= scores[j]
        /\ \A j \in 1..(i - 1) : scores[j] > scores[i]

find_best_loop_side(W, a) ==
    IF W.A[a].start_node \notin W.nodes THEN "top"
    ELSE Sides[first_min(side_scores(W, a))]

\* The loop geometry _update_self_loop_position gives arrow a on best_side.
loop_on_side(W, a, best_side) ==
    LET ar == W.A[a]
        n == ar.start_node
        x == W.pos[n][1]
        y == W.pos[n][2]
        loop_radius == (Max2(W.size[n][1], W.size[n][2]) * 3) \div 5
        half_width == W.size[n][1] \div 2
        half_height == W.size[n][2] \div 2
        placed(sp, ep, lc) ==
            [ar EXCEPT !.start_point = sp, !.end_point = ep, !.loop_center = lc,
                       !.loop_radius = loop_radius, !.is_self_loop = TRUE]
    IN CASE best_side = "top" ->
              placed(<<x - LoopGap, y - half_height>>, <<x + LoopGap, y - half_height>>,
                     <<x, y - half_height - loop_radius>>)
         [] best_side = "bottom" ->
              placed(<<x - LoopGap, y + half_height>>, <<x + LoopGap, y + half_height>>,
                     <<x, y + half_height + loop_radius>>)
         [] best_side = "left" ->
              placed(<<x - half_width, y - LoopGap>>, <<x - half_width, y + LoopGap>>,
                     <<x - half_width - loop_radius, y>>)
         [] OTHER ->
              placed(<<x + half_width, y - LoopGap>>, <<x + half_width, y + LoopGap>>,
                     <<x + half_width + loop_radius, y>>)

\* _update_self_loop_position of arrow a: the new fields of a.
update_self_loop_position(W, a) == loop_on_side(W, a, find_best_loop_side(W, a))

\* _update_normal_arrow_position of arrow a: the new fields of a.
update_normal_arrow_position(W, a) ==
    LET ar == W.A[a]
        start_center == W.pos[ar.start_node]
        end_center == W.pos[ar.end_node]
    IN [ar EXCEPT
          !.start_point = get_edge_intersection(start_center, end_center,
                               start_center, W.size[ar.start_node]),
          !.end_point = get_edge_intersection(end_center, start_center,
                               end_center, W.size[ar.end_node])]

With(W, a, fields) == [W EXCEPT !.A[a] = fields]

\* No self-loop was placed.
NoPlacement == [arrow |-> None, side |-> "none", scores |-> <<0, 0, 0, 0>>]

\* One call of _update_self_loop_position on arrow a; W.placed records the
\* side it chose and the four scores it chose from.
place_loop(W, a) ==
    [W EXCEPT !.A[a] = update_self_loop_position(W, a),
              !.placed = [arrow |-> a,
                          side |-> find_best_loop_side(W, a),
                          scores |-> side_scores(W, a)]]

\* _update_curve_positioning that also drops the arrow's target.
curve_arrow_detaching(W, a) ==
    With(W, a, [update_curve_positioning(W, a) EXCEPT !.end_node = None])

\* self._update_curve_positioning() on arrow a: the world after it.
curve_arrow(W, a) == With(W, a, update_curve_positioning(W, a))

\* Arrow.update_position: the world after it.
update_position(W, a) ==
    IF W.A[a].start_node = None \/ W.A[a].end_node = None THEN W
    ELSE IF W.A[a].start_node = W.A[a].end_node
         THEN place_loop(W, a)
    ELSE curve_arrow(With(W, a, update_normal_arrow_position(W, a)), a)

\* the loop `for loop in self_loops` of update_self_loops_for_node
RECURSIVE place_loops(_, _, _)
place_loops(W, loops, i) ==
    IF i > Len(loops) THEN W
    ELSE place_loops(place_loop(W, loops[i]), loops, i + 1)

\* Arrow.update_self_loops_for_node(node): the world after it.
update_self_loops_for_node(W, node) ==
    IF node \notin W.nodes THEN W
    ELSE place_loops(W,
            SelectSeq(scene_arrows(W),
                LAMBDA item : W.A[item].start_node = node /\ W.A[item].end_node = node),
            1)

\* the loop `for arrow in arrows` of update_parallel_arrows_in_scene
RECURSIVE curve_arrows(_, _, _)
curve_arrows(W, arrows, i) ==
    IF i > Len(arrows) THEN W
    ELSE curve_arrows(curve_arrow(W, arrows[i]), arrows, i + 1)

\* Arrow.update_parallel_arrows_in_scene(scene): the world after it.
update_parallel_arrows_in_scene(W) == curve_arrows(W, scene_arrows(W), 1)

\* signal.disconnect(slot) removes one connection of the slot, connect
\* appends one; W.conn[n] lists the arrows connected to n.node_moved.
RECURSIVE remove_first(_, _)
remove_first(q, x) ==
    IF q = <<>> THEN q
    ELSE IF Head(q) = x THEN Tail(q)
    ELSE <<Head(q)>> \o remove_first(Tail(q), x)

disconnect(W, n, a) ==
    IF n = None THEN W ELSE [W EXCEPT !.conn[n] = remove_first(@, a)]
connect(W, n, a) ==
    IF n = None THEN W ELSE [W EXCEPT !.conn[n] = Append(@, a)]

\* Arrow.set_nodes(start_node, end_node): the world after it.
set_nodes(W, a, start_node, end_node) ==
    update_position(
        connect(connect(
            With(disconnect(disconnect(W, W.A[a].start_node, a), W.A[a].end_node, a),
                 a, [W.A[a] EXCEPT !.start_node = start_node, !.end_node = end_node]),
            start_node, a), end_node, a),
        a)

\* ------------------------------------------------- the scene: operations
\* Number of Arrow objects that can be constructed.
NumArrows == 2
\* Number of operations performed on the scene.
MaxSteps == 4

ArrowIds == 1..NumArrows

\* The nodes start in a row of adjacent grid intersections; a move asks for
\* one of MovePoints: a point that snaps to the free intersection below the
\* middle of the row, and the first intersection of the row.
StartPosition(n) == <<n * GridSize, GridSize>>
MovePoints == {<<340, 270>>, <<150, 150>>}

\* The ends an operation may give an arrow; FlipArrow reverses an arrow.
EndPairs == {e \in scene_nodes \X scene_nodes : e[1] <= e[2]}
NodeSizes == {<<80, 40>>}

\* round(x / grid_size) * grid_size, for x not halfway between two lines
snap(x) == ((2 * x + GridSize) \div (2 * GridSize)) * GridSize

World ==
    [nodes |-> scene_nodes, pos |-> positions, size |-> sizes,
     items |-> scene_items, A |-> arrow_fields, addr |-> addr, conn |-> conn,
     placed |-> NoPlacement]

\* The operation `op' leaves the engine state W behind.
Done(W, op) ==
    /\ steps < MaxSteps
    /\ steps' = steps + 1
    /\ last_op' = op
    /\ positions' = W.pos
    /\ scene_items' = W.items
    /\ arrow_fields' = W.A
    /\ conn' = W.conn
    /\ last_placement' = W.placed
    /\ UNCHANGED <<scene_nodes, sizes, addr, grid_size, undo_stack, undo_index>>
    /\ UNCHANGED <<cdVars, call>>

SceneInit ==
    /\ scene_nodes \in {1..k : k \in 1..NumNodes}
    /\ positions = [n \in NodeIds |-> StartPosition(n)]
    /\ sizes \in [NodeIds -> NodeSizes]
    /\ scene_items = <<>>
    /\ arrow_fields = [a \in ArrowIds |-> NewArrow(None, None)]
    /\ addr = [a \in ArrowIds |-> a]
    /\ conn = [n \in NodeIds |-> <<>>]
    /\ last_placement = NoPlacement
    /\ last_op = "none"
    /\ steps = 0
    /\ grid_size = GridSize
    /\ undo_stack = <<>>
    /\ undo_index = 0
    /\ call = NoCall
    /\ cd_nodes = <<>>
    /\ cd_arrows = <<>>
    /\ node_states = <<>>
    /\ cycles = <<>>
    /\ adjacency = <<>>
    /\ current_path = <<>>
    /\ stack = <<>>
    /\ root = 0
    /\ pc = "idle"
    /\ cycle_nodes = <<>>
    /\ cycle_arrows = <<>>

\* Arrow(start_node, end_node): the constructor.
arrow_init(W, a, start_node, end_node) ==
    update_position(
        connect(connect(With(W, a, NewArrow(start_node, end_node)),
                        start_node, a), end_node, a), a)

add_item(W, a) == [W EXCEPT !.items = Append(@, a)]
remove_item(W, a) == [W EXCEPT !.items = SelectSeq(@, LAMBDA x : x # a)]

\* scene.addItem(arrow)
AddItem(a) ==
    /\ ~arrow_in_scene(World, a)
    /\ arrow_fields[a].start_node # None
    /\ Done(add_item(World, a), "add_item")

\* scene.removeItem(arrow)
RemoveItem(a) ==
    /\ arrow_in_scene(World, a)
    /\ Done(remove_item(World, a), "remove_item")

\* arrow.set_start_point(point)
set_start_point(W, a, point) == With(W, a, [W.A[a] EXCEPT !.start_point = point])

\* DiagramScene.start_arrow_creation(start_node)
StartArrowCreation(a, s) ==
    /\ ~arrow_in_scene(World, a)
    /\ arrow_fields[a] = NewArrow(None, None)
    /\ s \in scene_nodes
    /\ Done(add_item(set_start_point(arrow_init(World, a, s, None), a,
                  <<positions[s][1] + sizes[s][1] \div 2,
                    positions[s][2] + sizes[s][2] \div 2>>), a),
            "start_arrow_creation")

\* the tail of PlaceArrow.redo and PlaceArrow.undo
update_loops_if(W, wanted, node) ==
    IF wanted THEN update_self_loops_for_node(W, node) ELSE W

update_after_placement(W, start_node, end_node) ==
    update_loops_if(
        update_loops_if(update_parallel_arrows_in_scene(W),
                        start_node # None, start_node),
        end_node # None /\ end_node # start_node, end_node)

\* PlaceArrow(scene, arrow, start_node, end_node).redo()
PlaceArrowRedo(a, s, t) ==
    /\ ~arrow_in_scene(World, a)
    /\ Done(update_after_placement(add_item(set_nodes(World, a, s, t), a), s, t),
            "place_arrow")

\* PlaceArrow.undo() of the command that placed arrow a
PlaceArrowUndo(a) ==
    /\ arrow_in_scene(World, a)
    /\ arrow_fields[a].end_node # None
    /\ Done(update_after_placement(remove_item(World, a),
                arrow_fields[a].start_node, arrow_fields[a].end_node),
            "remove_arrow")

\* FlipArrowCommand(arrow).redo()
FlipArrow(a) ==
    /\ arrow_in_scene(World, a)
    /\ arrow_fields[a].end_node # None
    /\ Done(set_nodes(World, a, arrow_fields[a].end_node, arrow_fields[a].start_node),
            "flip_arrow")

\* node_moved.emit(node): the connected update_position slots, in the order
\* of their connection
RECURSIVE emit_node_moved(_, _, _)
emit_node_moved(W, slots, i) ==
    IF i > Len(slots) THEN W
    ELSE emit_node_moved(update_position(W, slots[i]), slots, i + 1)

\* Node.itemChange(ItemPositionChange, value): the position the node takes
position_change(W, node, value) ==
    LET snapped_pos == <<snap(value[1]), snap(value[2])>>
    IN IF node \in W.nodes
          /\ \E item \in W.nodes \ {node} :
                <<snap(W.pos[item][1]), snap(W.pos[item][2])>> = snapped_pos
       THEN W.pos[node]
       ELSE snapped_pos

\* Node.itemChange(ItemPositionHasChanged) at the new position: node_moved
\* is emitted, then the self-loops of the node are placed again.
set_pos(W, node, new_pos) ==
    IF new_pos = W.pos[node] THEN W
    ELSE update_self_loops_for_node(
             emit_node_moved([W EXCEPT !.pos[node] = new_pos], W.conn[node], 1),
             node)

\* MoveObject(obj, old, new).redo(): obj.setPos(new), through
\* Node.itemChange; a position that does not change notifies nobody.
MoveObject(n, p) ==
    /\ n \in scene_nodes
    /\ Done(set_pos(World, n, position_change(World, n, p)), "move_object")

\* arrow.set_nodes(start_node, end_node)
SetNodes(a, s, t) ==
    /\ arrow_fields[a].start_node # None
    /\ Done(set_nodes(World, a, s, t), "set_nodes")

\* arrow.update_position()
UpdatePosition(a) ==
    /\ arrow_fields[a].start_node # None
    /\ Done(update_position(World, a), "update_position")

\* Arrow.update_parallel_arrows_in_scene(scene)
UpdateParallelArrowsInScene ==
    /\ scene_items # <<>>
    /\ Done(update_parallel_arrows_in_scene(World), "update_parallel_arrows_in_scene")

\* Arrow.update_self_loops_for_node(node)
UpdateSelfLoopsForNode(n) ==
    /\ \E a \in ArrowIds : arrow_fields[a].start_node = n
    /\ Done(update_self_loops_for_node(World, n), "update_self_loops_for_node")

\* The full recompute pass: update_position on every arrow of the scene,
\* update_parallel_arrows_in_scene, update_self_loops_for_node on every node.
RECURSIVE loops_for_nodes(_, _)
loops_for_nodes(W, n) ==
    IF n > NumNodes THEN W
    ELSE loops_for_nodes(update_self_loops_for_node(W, n), n + 1)

full_recompute(W) ==
    loops_for_nodes(
        update_parallel_arrows_in_scene(emit_node_moved(W, scene_arrows(W), 1)), 1)

FullRecompute ==
    /\ scene_items # <<>>
    /\ Done(full_recompute(World), "full_recompute")

SceneNext ==
    \/ \E a \in ArrowIds : AddItem(a)
    \/ \E a \in ArrowIds : RemoveItem(a)
    \/ \E a \in ArrowIds, s \in scene_nodes : StartArrowCreation(a, s)
    \/ \E a \in ArrowIds, e \in EndPairs : PlaceArrowRedo(a, e[1], e[2])
    \/ \E a \in ArrowIds : PlaceArrowUndo(a)
    \/ \E a \in ArrowIds : FlipArrow(a)
    \/ \E n \in scene_nodes, p \in MovePoints : MoveObject(n, p)
    \/ \E a \in ArrowIds, e \in EndPairs : SetNodes(a, e[1], e[2])
    \/ \E a \in ArrowIds : UpdatePosition(a)
    \/ UpdateParallelArrowsInScene
    \/ \E n \in scene_nodes : UpdateSelfLoopsForNode(n)
    \/ FullRecompute

Spec == SceneInit /\ [][SceneNext]_vars

\* ------------------------------------- geometry functions called alone
\* The cycle detector before any call of it.
CdIdle ==
    /\ cd_nodes = <<>>
    /\ cd_arrows = <<>>
    /\ node_states = <<>>
    /\ cycles = <<>>
    /\ adjacency = <<>>
    /\ current_path = <<>>
    /\ stack = <<>>
    /\ root = 0
    /\ pc = "idle"
    /\ cycle_nodes = <<>>
    /\ cycle_arrows = <<>>

\* The arguments _get_edge_intersection is called with.  The node is at a
\* grid intersection; its bounding rectangle is 40 high and 80 or 300 wide
\* (a long label).  The target is the centre itself or a grid step or two
\* away, so that every ray meets a straight edge of the outline or the
\* middle of a corner chord, at a point of integer coordinates.  The centre
\* is the node's position, as in _update_normal_arrow_position, or the
\* top left corner of the bounding rectangle, a point outside the rounded
\* outline from which a ray can miss every edge.
AnchorSteps ==
    {<<0, 0>>, <<1, 0>>, <<-1, 0>>, <<0, 1>>, <<0, -1>>, <<1, 1>>, <<1, -1>>,
     <<-1, 1>>, <<-1, -1>>, <<2, 0>>, <<-2, 0>>}
AnchorSizes == {<<80, 40>>, <<300, 40>>}
AnchorPositions == {<<0, 0>>, <<GridSize, 0>>, <<GridSize, GridSize>>}
AnchorArgs ==
    {[center |-> c, target_center |-> <<c[1] + GridSize * k[1], c[2] + GridSize * k[2]>>,
      node_pos |-> p, size |-> z] :
        <<c, k, p, z>> \in
            {q \in (AnchorPositions \cup
                       {<<p[1] - z[1] \div 2, p[2] - z[2] \div 2>> :
                           p \in AnchorPositions, z \in AnchorSizes})
                    \X AnchorSteps \X AnchorPositions \X AnchorSizes :
                \/ q[1] = q[3]
                \/ q[1] = <<q[3][1] - q[4][1] \div 2, q[3][2] - q[4][2] \div 2>>}}

AnchorInit ==
    /\ call \in {[fn |-> "none", args |-> x, result |-> <<>>] : x \in AnchorArgs}
    /\ CdIdle
    /\ SceneIdle

\* arrow._get_edge_intersection(center, target_center, node)
GetEdgeIntersection ==
    /\ call.fn = "none"
    /\ call' = [fn |-> "get_edge_intersection", args |-> call.args,
                result |-> get_edge_intersection(call.args.center,
                              call.args.target_center, call.args.node_pos,
                              call.args.size)]
    /\ UNCHANGED <<cdVars, sceneVars>>

SpecAnchor == AnchorInit /\ [][GetEdgeIntersection]_vars

\* The lines _lines_are_parallel_and_overlapping is called with, as
\* _get_arrow_line builds them: [start, end, vector = end - start].  The
\* first line starts at the origin and runs along an axis; the second is
\* parallel to it (same or opposite direction, equal or shorter, or a
\* point), across it, or tilted by 1 in 100, and starts at an offset that
\* puts the projected overlap at 10 and around it, the range ends less or
\* more than 5 apart, and the lines 50 and 51 apart.  On these lines the
\* code's floating-point projections are exact.
Line(start, vector) ==
    [start |-> start, end |-> Add(start, vector), vector |-> vector]
Transposed(line) ==
    [start |-> <<line.start[2], line.start[1]>>,
     end |-> <<line.end[2], line.end[1]>>,
     vector |-> <<line.vector[2], line.vector[1]>>]
LineVectors1 == {<<100, 0>>, <<8, 0>>}
LineVectors2 ==
    {<<100, 0>>, <<-100, 0>>, <<8, 0>>, <<7, 0>>, <<0, 0>>, <<0, 100>>, <<100, 1>>}
LineStarts == {0, 2, 6, 89, 90, 100, 120} \X {0, 50, 51}
LineArgs ==
    {[line1 |-> IF t THEN Transposed(Line(<<0, 0>>, v1)) ELSE Line(<<0, 0>>, v1),
      line2 |-> IF t THEN Transposed(Line(o, v2)) ELSE Line(o, v2)] :
        <<v1, v2, o, t>> \in LineVectors1 \X LineVectors2 \X LineStarts \X BOOLEAN}

LinesInit ==
    /\ call \in {[fn |-> "none", args |-> x, result |-> FALSE] : x \in LineArgs}
    /\ CdIdle
    /\ SceneIdle

\* arrow._lines_are_parallel_and_overlapping(line1, line2)
LinesAreParallelAndOverlapping ==
    /\ call.fn = "none"
    /\ call' = [fn |-> "lines_are_parallel_and_overlapping", args |-> call.args,
                result |-> lines_are_parallel_and_overlapping(call.args.line1,
                                                              call.args.line2)]
    /\ UNCHANGED <<cdVars, sceneVars>>

SpecLines == LinesInit /\ [][LinesAreParallelAndOverlapping]_vars

\* ------------------------------------------- three arrows on four nodes
\* Number of nodes and of arrows of the scenes with parallel groups.
NumGroupNodes == 4
NumGroupArrows == 3
GroupNodes == 1..NumGroupNodes
GroupArrows == 1..NumGroupArrows

\* The nodes stand in a row of adjacent grid intersections, or as the ends
\* of two parallel lines of direction (3, 4) that are 30 apart; along
\* (3, 4) and along (1, 1) a ray from the centre of a node meets the
\* straight part of its top or bottom edge at a point of integer
\* coordinates.
GroupLayouts ==
    {[n \in GroupNodes |-> <<n * GridSize, GridSize>>],
     <<<<0, 0>>, <<3 * GridSize, 4 * GridSize>>, <<GridSize, GridSize>>,
       <<4 * GridSize, 5 * GridSize>>>>}
\* The ends an arrow is placed between.
GroupEndPairs == {<<1, 2>>, <<1, 3>>, <<2, 4>>, <<3, 4>>}

GroupInit ==
    /\ scene_nodes = GroupNodes
    /\ positions \in GroupLayouts
    /\ sizes = [n \in GroupNodes |-> <<80, 40>>]
    /\ scene_items = <<>>
    /\ arrow_fields = [a \in GroupArrows |-> NewArrow(None, None)]
    /\ addr = [a \in GroupArrows |-> a]
    /\ conn = [n \in GroupNodes |-> <<>>]
    /\ last_placement = NoPlacement
    /\ last_op = "none"
    /\ steps = 0
    /\ grid_size = GridSize
    /\ undo_stack = <<>>
    /\ undo_index = 0
    /\ call = NoCall
    /\ CdIdle

GroupNext ==
    \/ \E a \in GroupArrows, e \in GroupEndPairs : PlaceArrowRedo(a, e[1], e[2])
    \/ \E a \in GroupArrows : PlaceArrowUndo(a)
    \/ \E a \in GroupArrows : FlipArrow(a)
    \/ UpdateParallelArrowsInScene

SpecGroups == GroupInit /\ [][GroupNext]_vars

\* ------------------------------------------- objects and the undo stack
\* Number of commands the undo stack holds.
MaxCommands == 3
\* The values the grid spacing of the settings dialog is set to.
GridSizes == {100, GridSize}
\* `range(1, 20)` of _find_nearest_free_grid_position ends before this.
SearchRadius == 20
\* The scene points of a click, a press or the end of a drag; each lies
\* outside the bounding rectangle of every object on a grid intersection.
ClickPoints == {<<60, 30>>, <<100, 30>>, <<160, 30>>}

\* round(x / g) of Python: the nearest integer, a half goes to the even one
py_round(x, g) ==
    IF 2 * (x % g) < g THEN x \div g
    ELSE IF 2 * (x % g) > g THEN x \div g + 1
    ELSE IF (x \div g) % 2 = 0 THEN x \div g ELSE x \div g + 1

\* DiagramScene.snap_to_grid(point), with g the scene's _grid_size
snap_to_grid(g, point) == <<py_round(point[1], g) * g, py_round(point[2], g) * g>>

\* DiagramScene._is_grid_position_occupied(position)
is_grid_position_occupied(W, g, position) ==
    \E item \in W.nodes : snap_to_grid(g, W.pos[item]) = snap_to_grid(g, position)

\* The positions on the edge of the square of the given radius, in the
\* order of the loops over dx and dy.
RingCells(g, start_pos, radius) ==
    SelectSeq([i \in 1..(2 * radius + 1) * (2 * radius + 1) |->
                  <<((i - 1) \div (2 * radius + 1)) - radius,
                    ((i - 1) % (2 * radius + 1)) - radius>>],
              LAMBDA d : Abs(d[1]) = radius \/ Abs(d[2]) = radius)

first_free_cell(W, g, start_pos, cells, i) ==
    <<start_pos[1] + cells[i][1] * g, start_pos[2] + cells[i][2] * g>>

RECURSIVE free_in_ring(_, _, _, _, _, _)
free_in_ring(W, g, start_pos, radius, cells, i) ==
    IF radius >= SearchRadius THEN start_pos
    ELSE IF i > Len(cells)
    THEN free_in_ring(W, g, start_pos, radius + 1,
                      RingCells(g, start_pos, radius + 1), 1)
    ELSE IF ~is_grid_position_occupied(W, g, first_free_cell(W, g, start_pos, cells, i))
    THEN first_free_cell(W, g, start_pos, cells, i)
    ELSE free_in_ring(W, g, start_pos, radius, cells, i + 1)

\* DiagramScene._find_nearest_free_grid_position(position)
find_nearest_free_grid_position(W, g, position) ==
    IF ~is_grid_position_occupied(W, g, snap_to_grid(g, position))
    THEN snap_to_grid(g, position)
    ELSE free_in_ring(W, g, snap_to_grid(g, position), 1,
                      RingCells(g, snap_to_grid(g, position), 1), 1)

\* The position mouseDoubleClickEvent gives the new object.
double_click_position(W, g, point) ==
    IF is_grid_position_occupied(W, g, snap_to_grid(g, point))
    THEN find_nearest_free_grid_position(W, g, snap_to_grid(g, point))
    ELSE snap_to_grid(g, point)

\* Object(name): a new item, at the origin and in no scene
new_object(W, obj) == [W EXCEPT !.pos[obj] = <<0, 0>>]

\* obj.setPos(value), through Node.itemChange
obj_set_pos(W, obj, value) == set_pos(W, obj, position_change(W, obj, value))

add_object(W, obj) == [W EXCEPT !.nodes = @ \cup {obj}]
remove_object(W, obj) == [W EXCEPT !.nodes = @ \ {obj}]

\* A command of the undo stack: PlaceObject(scene, obj, new),
\* MoveObject(obj, old, new) or DeleteItems(scene, [obj]) with the stored
\* position `old'.
Command(kind, obj, old, new) == [kind |-> kind, obj |-> obj, old |-> old, new |-> new]

\* PlaceObject.redo()
place_object_redo(W, cmd) == obj_set_pos(add_object(W, cmd.obj), cmd.obj, cmd.new)
\* PlaceObject.undo()
place_object_undo(W, cmd) == remove_object(W, cmd.obj)
\* MoveObject.redo()
move_object_redo(W, cmd) == obj_set_pos(W, cmd.obj, cmd.new)
\* MoveObject.undo()
move_object_undo(W, cmd) == obj_set_pos(W, cmd.obj, cmd.old)
\* DeleteItems.redo() of one object that no arrow is connected to
delete_items_redo(W, cmd) ==
    update_parallel_arrows_in_scene(remove_object(W, cmd.obj))
\* DeleteItems.undo()
delete_items_undo(W, cmd) ==
    update_parallel_arrows_in_scene(
        obj_set_pos(add_object(W, cmd.obj), cmd.obj, cmd.old))

command_redo(W, cmd) ==
    CASE cmd.kind = "place" -> place_object_redo(W, cmd)
      [] cmd.kind = "move" -> move_object_redo(W, cmd)
      [] cmd.kind = "delete" -> delete_items_redo(W, cmd)

command_undo(W, cmd) ==
    CASE cmd.kind = "place" -> place_object_undo(W, cmd)
      [] cmd.kind = "move" -> move_object_undo(W, cmd)
      [] cmd.kind = "delete" -> delete_items_undo(W, cmd)

\* The operation `op' leaves the scene W and the undo stack behind.
ObjDone(W, op, commands, index) ==
    /\ scene_nodes' = W.nodes
    /\ positions' = W.pos
    /\ scene_items' = W.items
    /\ arrow_fields' = W.A
    /\ conn' = W.conn
    /\ last_op' = op
    /\ undo_stack' = commands
    /\ undo_index' = index
    /\ UNCHANGED <<sizes, addr, last_placement, steps, grid_size>>
    /\ UNCHANGED <<cdVars, call>>

\* app.undo_stack.push(command): the commands that were undone are
\* dropped and the command's redo() runs.
push(W, cmd, op) ==
    /\ undo_index < MaxCommands
    /\ ObjDone(command_redo(W, cmd), op,
               Append(SubSeq(undo_stack, 1, undo_index), cmd), undo_index + 1)

\* The objects that exist: in the scene or held by a command.
LiveObjects ==
    scene_nodes \cup {undo_stack[i].obj : i \in 1..undo_index}

\* The next object to construct.
NextObject == CHOOSE n \in NodeIds \ LiveObjects :
                  \A m \in NodeIds \ LiveObjects : n <= m

\* items(point) finds no Object at the point.
OnEmptyCanvas(W, point) ==
    \A n \in W.nodes :
        ~(/\ node_scene_rect(W, n).l <= point[1] /\ point[1] < node_scene_rect(W, n).r
          /\ node_scene_rect(W, n).t <= point[2] /\ point[2] < node_scene_rect(W, n).b)

ObjInit ==
    /\ scene_nodes = {}
    /\ positions = [n \in NodeIds |-> <<0, 0>>]
    /\ sizes = [n \in NodeIds |-> <<80, 40>>]
    /\ scene_items = <<>>
    /\ arrow_fields = [a \in ArrowIds |-> NewArrow(None, None)]
    /\ addr = [a \in ArrowIds |-> a]
    /\ conn = [n \in NodeIds |-> <<>>]
    /\ last_placement = NoPlacement
    /\ last_op = "none"
    /\ steps = 0
    /\ grid_size = GridSize
    /\ undo_stack = <<>>
    /\ undo_index = 0
    /\ call = NoCall
    /\ CdIdle

\* DiagramScene.mouseDoubleClickEvent on the empty canvas, outside arrow
\* creation: a new object is placed by a PlaceObject command.
DoubleClickCanvas(point) ==
    /\ NodeIds \ LiveObjects # {}
    /\ OnEmptyCanvas(World, point)
    /\ push(new_object(World, NextObject),
            Command("place", NextObject, <<0, 0>>,
                    double_click_position(World, grid_size, point)),
            "double_click")

\* DiagramView._add_object_at_pos(pos): "Add Object" of the press-and-hold
\* menu of the empty canvas.
AddObjectAtPos(point) ==
    /\ NodeIds \ LiveObjects # {}
    /\ OnEmptyCanvas(World, point)
    /\ push(obj_set_pos(new_object(World, NextObject), NextObject, point),
            Command("place", NextObject, <<0, 0>>, point),
            "add_object_at_pos")

\* DiagramView.mouseMoveEvent and mouseReleaseEvent: the dragged object is
\* moved with setPos, and a MoveObject command is pushed when it ended
\* somewhere else.
DragObject(n, point) ==
    /\ n \in scene_nodes
    /\ obj_set_pos(World, n, point).pos[n] # positions[n]
    /\ push(obj_set_pos(World, n, point),
            Command("move", n, positions[n], obj_set_pos(World, n, point).pos[n]),
            "drag")

\* MainWindow.delete_selected with one object selected
DeleteSelected(n) ==
    /\ n \in scene_nodes
    /\ push(World, Command("delete", n, positions[n], positions[n]), "delete_items")

\* app.undo_stack.undo()
Undo ==
    /\ undo_index > 0
    /\ ObjDone(command_undo(World, undo_stack[undo_index]), "undo",
               undo_stack, undo_index - 1)

\* app.undo_stack.redo()
Redo ==
    /\ undo_index < Len(undo_stack)
    /\ ObjDone(command_redo(World, undo_stack[undo_index + 1]), "redo",
               undo_stack, undo_index + 1)

\* MainWindow.apply_settings_to_current_diagram: a new grid spacing
SetGridSize(g) ==
    /\ g # grid_size
    /\ grid_size' = g
    /\ UNCHANGED <<scene_nodes, positions, sizes, scene_items, arrow_fields,
                   addr, conn, last_placement, last_op, steps, undo_stack,
                   undo_index>>
    /\ UNCHANGED <<cdVars, call>>

ObjNext ==
    \/ \E point \in ClickPoints : DoubleClickCanvas(point)
    \/ \E point \in ClickPoints : AddObjectAtPos(point)
    \/ \E n \in NodeIds, point \in ClickPoints : DragObject(n, point)
    \/ \E n \in NodeIds : DeleteSelected(n)
    \/ Undo
    \/ Redo
    \/ \E g \in GridSizes : SetGridSize(g)

SpecObjects == ObjInit /\ [][ObjNext]_vars

\* ------------------------------------------------ claims on CycleDetector
\* The edges of the graph find_cycles is handed: the arrows with both
\* endpoints in `nodes`.
GraphEdges ==
    {<<cd_arrows[i].start_node, cd_arrows[i].end_node>> : i \in 1..Len(cd_arrows)}
        \cap (Range(cd_nodes) \X Range(cd_nodes))

\* The simple directed cycles, each as its sequence of pairwise distinct
\* nodes (the closing edge leads from the last node back to the first).
SimpleCycles ==
    {p \in UNION {[1..k -> Range(cd_nodes)] : k \in 1..Len(cd_nodes)} :
        /\ \A i, j \in 1..Len(p) : p[i] = p[j] => i = j
        /\ \A i \in 1..Len(p) : <<p[i], p[(i % Len(p)) + 1]>> \in GraphEdges}

\* c is the closed node sequence of the simple cycle p, read from some
\* rotation of p.
ClosesAs(c, p) ==
    /\ Len(c) = Len(p) + 1
    /\ \E r \in 0..(Len(p) - 1) :
          \A i \in 1..Len(c) : c[i] = p[((i - 1 + r) % Len(p)) + 1]

IsTriangle(a, b, c) ==
    /\ {a, b, c} \subseteq Range(cd_nodes)
    /\ Cardinality({a, b, c}) = 3
    /\ Len(cd_arrows) = 3
    /\ {<<cd_arrows[i].start_node, cd_arrows[i].end_node>> : i \in 1..3}
          = {<<a, b>>, <<b, c>>, <<c, a>>}

\* C2: find_cycles returns [] exactly when the graph of the arrows with both
\* endpoints in nodes has no directed cycle (a self-arrow counts as one); so
\* [] for the empty graph and for A->B, B->C, and only rotations of [A,B,C,A]
\* (at least one) for A->B, B->C, C->A.
C2_EmptyIffAcyclic ==
    pc = "done" =>
        /\ (cycles = <<>>) <=> (SimpleCycles = {})
        /\ (cd_nodes = <<>> /\ cd_arrows = <<>>) => cycles = <<>>
        /\ \A a, b, c \in NodeIds :
              /\ ({a, b, c} \subseteq Range(cd_nodes) /\ Cardinality({a, b, c}) = 3
                    /\ cd_arrows = <<[start_node |-> a, end_node |-> b],
                                     [start_node |-> b, end_node |-> c]>>)
                    => cycles = <<>>
              /\ IsTriangle(a, b, c) =>
                    /\ cycles # <<>>
                    /\ \A i \in 1..Len(cycles) : ClosesAs(cycles[i], <<a, b, c>>)

C2_Witness ==
    /\ pc = "done"
    /\ IsTriangle(2, 1, 3)
    /\ cycles = <<<<1, 3, 2, 1>>>>

\* C3: every simple directed cycle of the graph is among the sequences
\* find_cycles returns, up to rotation.
C3_EveryCycleReported ==
    pc = "done" =>
        \A p \in SimpleCycles : \E i \in 1..Len(cycles) : ClosesAs(cycles[i], p)

\* C12: for a cycle c returned by find_cycles, get_cycle_arrows(c, arrows)
\* returns len(c) - 1 arrows, the j-th being the first arrow of `arrows`
\* from c[j] to c[j+1]; for fewer than 2 nodes it returns the empty list.
C12_CycleArrowsFirstMatch ==
    pc = "arrows" =>
        /\ Len(cycle_nodes) < 2 => cycle_arrows = <<>>
        /\ cycle_nodes \in Range(cycles) =>
              /\ Len(cycle_arrows) = Len(cycle_nodes) - 1
              /\ \A j \in 1..Len(cycle_arrows) :
                    /\ cycle_arrows[j] \in 1..Len(cd_arrows)
                    /\ cd_arrows[cycle_arrows[j]].start_node = cycle_nodes[j]
                    /\ cd_arrows[cycle_arrows[j]].end_node = cycle_nodes[j + 1]
                    /\ \A k \in 1..(cycle_arrows[j] - 1) :
                          ~(/\ cd_arrows[k].start_node = cycle_nodes[j]
                            /\ cd_arrows[k].end_node = cycle_nodes[j + 1])

\* The arrows of the cycle 1 -> 2 -> 1, the arrow 1 -> 2 being there twice.
C12_Witness ==
    /\ pc = "arrows"
    /\ cd_arrows = <<[start_node |-> 2, end_node |-> 1],
                     [start_node |-> 1, end_node |-> 2],
                     [start_node |-> 1, end_node |-> 2]>>
    /\ cycle_nodes = <<1, 2, 1>>
    /\ cycle_nodes \in Range(cycles)
    /\ cycle_arrows = <<2, 1>>

\* C17: every sequence find_cycles returns has at least two elements, its
\* first element equals its last, the elements before the last are pairwise
\* distinct, and every consecutive pair (u, v) has an arrow from u to v.
C17_CyclesAreClosedSimplePaths ==
    \A k \in 1..Len(cycles) :
        /\ Len(cycles[k]) >= 2
        /\ cycles[k][1] = cycles[k][Len(cycles[k])]
        /\ \A i, j \in 1..(Len(cycles[k]) - 1) :
              cycles[k][i] = cycles[k][j] => i = j
        /\ \A i \in 1..(Len(cycles[k]) - 1) :
              \E a \in 1..Len(cd_arrows) :
                  /\ cd_arrows[a].start_node = cycles[k][i]
                  /\ cd_arrows[a].end_node = cycles[k][i + 1]

\* find_cycles returned a self-arrow's cycle and a cycle through two or
\* more nodes that starts below the root of its search.
C17_Witness ==
    /\ pc = "done"
    /\ \E k \in 1..Len(cycles) : Len(cycles[k]) = 2
    /\ \E k \in 1..Len(cycles) :
          Len(cycles[k]) >= 3 /\ cycles[k][1] # cd_nodes[1]

\* The nodes no arrow leads to: the search reaches each of them only as a
\* root of its own.
SourceNodes == {n \in Range(cd_nodes) : \A e \in GraphEdges : e[2] # n}

\* A simple cycle with arrows into it from two different source nodes:
\* several entry points, each below a DFS root of its own.
SeveralEntryPoints ==
    \E p \in SimpleCycles : \E r1, r2 \in SourceNodes :
        /\ r1 # r2
        /\ \E i \in 1..Len(p) : <<r1, p[i]>> \in GraphEdges
        /\ \E i \in 1..Len(p) : <<r2, p[i]>> \in GraphEdges

Repeated == \E i, j \in 1..Len(cycles) : i < j /\ cycles[i] = cycles[j]

C18_RepeatsNeedDuplicateArrows ==
    Repeated =>
        \E a, b \in 1..Len(cd_arrows) : a < b /\ cd_arrows[a] = cd_arrows[b]

\* ------------------------------------------------ claims on the scene
IsSelfLoopArrow(a) ==
    /\ arrow_fields[a].start_node # None
    /\ arrow_fields[a].start_node = arrow_fields[a].end_node

InScene(a) == arrow_in_scene(World, a)

\* C1: no arrow is at once a self-loop and curved: is_self_loop and
\* is_curved are never both true, and an arrow whose source equals its
\* target has is_curved = false.
C1_SelfLoopNeverCurved ==
    \A a \in ArrowIds :
        /\ ~(arrow_fields[a].is_self_loop /\ arrow_fields[a].is_curved)
        /\ IsSelfLoopArrow(a) => ~arrow_fields[a].is_curved

\* The curve fields of arrow a are what _update_curve_positioning computes
\* for it from the current node positions and arrow set.
CurveFieldsCurrent(a) ==
    LET fresh == update_curve_positioning(World, a)
    IN /\ arrow_fields[a].is_curved = fresh.is_curved
       /\ arrow_fields[a].curve_offset = fresh.curve_offset
       /\ arrow_fields[a].control_point_1 = fresh.control_point_1
       /\ arrow_fields[a].control_point_2 = fresh.control_point_2

GraphChanges == {"move_object", "place_arrow", "remove_arrow", "flip_arrow"}

\* C4: after a node was moved or an arrow was added, removed or flipped,
\* every arrow in the scene has the curve fields (is_curved, curve_offset,
\* control points) that _update_curve_positioning computes from the current
\* state.
C4_CurveFieldsNeverStale ==
    last_op \in GraphChanges =>
        \A a \in ArrowIds : InScene(a) => CurveFieldsCurrent(a)

\* C10: _find_parallel_arrows never returns a self-loop, and returns the
\* empty group when it is called on a self-loop.
C10_SelfLoopsNeverGrouped ==
    \A a \in ArrowIds :
        LET group == find_parallel_arrows(World, a)
        IN /\ \A i \in 1..Len(group) : ~IsSelfLoopArrow(group[i])
           /\ IsSelfLoopArrow(a) => group = <<>>

\* The geometry a recompute pass produces for arrow a.
Geometry(fields) ==
    <<fields.start_point, fields.end_point, fields.is_curved, fields.curve_offset,
      fields.control_point_1, fields.control_point_2, fields.is_self_loop,
      fields.loop_center, fields.loop_radius>>

\* C5: a second full recompute pass right after a first one leaves every
\* arrow's start_point, end_point, is_curved, curve_offset, control points,
\* is_self_loop, loop_center and loop_radius as the first pass left them.
C5_RecomputeIdempotent ==
    last_op = "full_recompute" =>
        \A a \in ArrowIds :
            Geometry(full_recompute(World).A[a]) = Geometry(arrow_fields[a])

\* The operations that end with _update_curve_positioning having run on
\* every arrow of the scene, no curve field being written afterwards.
CurvesAssigned ==
    last_op \in {"update_parallel_arrows_in_scene", "place_arrow", "remove_arrow",
                 "full_recompute"}

Complete(a) == arrow_fields[a].start_node # None /\ arrow_fields[a].end_node # None

\* a and b are the only two arrows of the scene between their two nodes
ExactlyTwoShareEndpoints(a, b) ==
    /\ a # b
    /\ InScene(a) /\ InScene(b)
    /\ Complete(a) /\ Complete(b)
    /\ same_endpoints(arrow_fields[a], arrow_fields[b])
    /\ \A c \in ArrowIds \ {a, b} :
          ~(InScene(c) /\ Complete(c)
            /\ same_endpoints(arrow_fields[a], arrow_fields[c]))

\* C6: when exactly two arrows share both endpoints, in either order, and
\* _update_curve_positioning has run on both, the one with the smaller sort
\* key has curve_offset = +30 and the other curve_offset = -30.
C6_PairOffsetsOpposite ==
    CurvesAssigned =>
        \A a, b \in ArrowIds :
            (ExactlyTwoShareEndpoints(a, b) /\ addr[a] < addr[b]) =>
                /\ arrow_fields[a].curve_offset = 30
                /\ arrow_fields[b].curve_offset = -30

\* C7: an arrow with no other arrow parallel-and-overlapping with it is
\* left by _update_curve_positioning with is_curved = false and
\* curve_offset = 0.
C7_LoneArrowStraight ==
    CurvesAssigned =>
        \A a \in ArrowIds :
            (InScene(a) /\ find_parallel_arrows(World, a) = <<>>) =>
                /\ ~arrow_fields[a].is_curved
                /\ arrow_fields[a].curve_offset = 0

SideIndex(side) == CHOOSE i \in 1..Len(Sides) : Sides[i] = side

\* the number of other nodes whose bounds intersect the probe of `side'
\* of the node that carries self-loop a
OtherNodesInProbe(a, side) ==
    Cardinality({m \in scene_nodes \ {arrow_fields[a].start_node} :
        RectsIntersect(node_scene_rect(World, m),
                       side_area(World, arrow_fields[a].start_node, side))})

\* C8: the side chosen for a self-loop has a minimal score, every side
\* before it in the order top, bottom, left, right has a larger score, and
\* on a node that is the only node in the scene the side is top.
C8_MinimalSideTopWhenAlone ==
    last_placement.arrow # None =>
        LET chosen == SideIndex(last_placement.side)
        IN /\ \A j \in 1..Len(Sides) :
                 last_placement.scores[chosen] <= last_placement.scores[j]
           /\ \A j \in 1..(chosen - 1) :
                 last_placement.scores[j] > last_placement.scores[chosen]
           /\ scene_nodes = {arrow_fields[last_placement.arrow].start_node}
                 => last_placement.side = "top"

\* C9: the score of every side is the number of other nodes whose bounds
\* intersect the side's probe rectangle; arrows contribute nothing.
C9_ScoreCountsOtherNodesOnly ==
    last_placement.arrow # None =>
        \A i \in 1..Len(Sides) :
            last_placement.scores[i] = OtherNodesInProbe(last_placement.arrow, Sides[i])

\* Two arrows between nodes 1 and 2, in opposite orders, after the scene's
\* curves were assigned.
C6_Witness ==
    /\ last_op = "update_parallel_arrows_in_scene"
    /\ ExactlyTwoShareEndpoints(1, 2)
    /\ arrow_fields[1].start_node = 1 /\ arrow_fields[1].end_node = 2
    /\ arrow_fields[2].start_node = 2 /\ arrow_fields[2].end_node = 1
    /\ arrow_fields[1].curve_offset = 30
    /\ arrow_fields[2].curve_offset = -30

\* The one arrow left in the scene, between two distinct nodes, is straight
\* again after the arrow it was curved against was removed.
C7_Witness ==
    /\ last_op = "remove_arrow"
    /\ scene_items = <<1>>
    /\ Complete(1) /\ ~IsSelfLoopArrow(1)
    /\ Complete(2) /\ same_endpoints(arrow_fields[1], arrow_fields[2])
    /\ arrow_fields[1].control_point_1 # Plain(<<0, 0>>)
    /\ ~arrow_fields[1].is_curved
    /\ arrow_fields[1].curve_offset = 0

\* C11: an arrow of the scene with an absent source or target is in no
\* other arrow's parallel group, and the geometry update_position computes
\* for any other arrow is the one it computes with that arrow taken out of
\* the scene.
C11_IncompleteArrowExcluded ==
    \A a \in ArrowIds :
        (InScene(a) /\ ~Complete(a)) =>
            \A b \in ArrowIds \ {a} :
                /\ \A i \in 1..Len(find_parallel_arrows(World, b)) :
                       find_parallel_arrows(World, b)[i] # a
                /\ Complete(b) =>
                       Geometry(update_position(World, b).A[b])
                          = Geometry(update_position(remove_item(World, a), b).A[b])

\* ------------------------------------------ claims on the boundary anchor
Cross(u, v) == u[1] * v[2] - u[2] * v[1]
Sgn(x) == IF x > 0 THEN 1 ELSE IF x < 0 THEN -1 ELSE 0

\* the outline polygon of the node of the call
OutlineEdges ==
    get_rounded_rect_segments(call.args.node_pos[1] - call.args.size[1] \div 2,
                              call.args.node_pos[2] - call.args.size[2] \div 2,
                              call.args.size[1], call.args.size[2], corner_radius)

RayDirection == Primitive(Sub(call.args.target_center, call.args.center))

\* q lies on the ray from center towards target_center, ahead of center
OnRayAhead(q) ==
    /\ Cross(RayDirection, Sub(q, call.args.center)) = 0
    /\ Dot(RayDirection, Sub(q, call.args.center)) > 0

\* q lies on the edge
OnEdge(q, edge) ==
    /\ Cross(Sub(edge[2], edge[1]), Sub(q, edge[1])) = 0
    /\ Dot(Sub(q, edge[1]), Sub(q, edge[2])) <= 0

\* The edge has a point on the ray ahead of center: an end of it, or the
\* point where it crosses the line of the ray.
RayMeetsEdge(edge) ==
    LET o1 == Cross(RayDirection, Sub(edge[1], call.args.center))
        o2 == Cross(RayDirection, Sub(edge[2], call.args.center))
        \* (o1 - o2) * (X - center) for the crossing point X
        scaled == <<(edge[1][1] - call.args.center[1]) * (o1 - o2)
                        + o1 * (edge[2][1] - edge[1][1]),
                    (edge[1][2] - call.args.center[2]) * (o1 - o2)
                        + o1 * (edge[2][2] - edge[1][2])>>
    IN \/ OnRayAhead(edge[1])
       \/ OnRayAhead(edge[2])
       \/ /\ Sgn(o1) * Sgn(o2) < 0
          /\ Sgn(Dot(RayDirection, scaled)) * Sgn(o1 - o2) > 0

\* The edge has a point strictly between center and q.
EdgeBefore(edge, q) ==
    LET a == call.args.center
        inside(x) == Cross(Sub(q, a), Sub(x, a)) = 0 /\ Dot(Sub(x, a), Sub(x, q)) < 0
    IN \/ inside(edge[1])
       \/ inside(edge[2])
       \/ /\ Sgn(Cross(Sub(q, a), Sub(edge[1], a)))
                * Sgn(Cross(Sub(q, a), Sub(edge[2], a))) < 0
          /\ Sgn(Cross(Sub(edge[2], edge[1]), Sub(a, edge[1])))
                * Sgn(Cross(Sub(edge[2], edge[1]), Sub(q, edge[1]))) < 0

\* C13: when towards differs from center and the ray from center towards
\* it meets an edge of the outline polygon ahead of center,
\* _get_edge_intersection returns the nearest such meeting point: a point
\* of an edge, on the ray ahead of center, with no edge meeting the ray
\* before it.
C13_NearestOutlinePoint ==
    (/\ call.fn = "get_edge_intersection"
     /\ call.args.target_center # call.args.center
     /\ \E i \in 1..Len(OutlineEdges) : RayMeetsEdge(OutlineEdges[i])) =>
        /\ OnRayAhead(call.result)
        /\ \E i \in 1..Len(OutlineEdges) : OnEdge(call.result, OutlineEdges[i])
        /\ \A i \in 1..Len(OutlineEdges) : ~EdgeBefore(OutlineEdges[i], call.result)

\* C14: _get_edge_intersection always returns a point; it returns center
\* when center and towards coincide, and when no edge of the outline
\* meets the ray ahead of center.
C14_CenterFallback ==
    call.fn = "get_edge_intersection" =>
        /\ call.result \in Int \X Int
        /\ call.args.target_center = call.args.center
              => call.result = call.args.center
        /\ (\A i \in 1..Len(OutlineEdges) : ~RayMeetsEdge(OutlineEdges[i]))
              => call.result = call.args.center

\* From the corner of the bounding rectangle, away from the node: the ray
\* misses the outline.
C14_Witness ==
    /\ call.fn = "get_edge_intersection"
    /\ call.args.node_pos = <<0, 0>>
    /\ call.args.size = <<80, 40>>
    /\ call.args.center = <<-40, -20>>
    /\ call.args.target_center = <<-190, -170>>
    /\ \A i \in 1..Len(OutlineEdges) : ~RayMeetsEdge(OutlineEdges[i])
    /\ call.result = <<-40, -20>>

\* ------------------------------------------------ claims on the engine
EngineOps ==
    {"update_position", "update_parallel_arrows_in_scene",
     "update_self_loops_for_node", "full_recompute"}

Ends(fields) == <<fields.start_node, fields.end_node>>

\* C15: a step of update_position, update_parallel_arrows_in_scene (and so
\* of _update_curve_positioning), update_self_loops_for_node or the full
\* pass leaves every node's position and size, the nodes and arrows of the
\* scene, the signal connections and every arrow's source and target as
\* they were; a step of find_cycles or get_cycle_arrows leaves its nodes
\* and arrows arguments and the whole scene as they were.
C15_EngineFrame ==
    [][/\ (steps' # steps /\ last_op' \in EngineOps) =>
             /\ positions' = positions
             /\ sizes' = sizes
             /\ scene_nodes' = scene_nodes
             /\ scene_items' = scene_items
             /\ conn' = conn
             /\ addr' = addr
             /\ \A a \in ArrowIds : Ends(arrow_fields'[a]) = Ends(arrow_fields[a])
             /\ UNCHANGED cdVars
       /\ (pc # "idle" \/ pc' # "idle") =>
             /\ cd_nodes' = cd_nodes
             /\ cd_arrows' = cd_arrows
             /\ UNCHANGED sceneVars]_vars

\* update_position has curved arrow 1 against arrow 2, both from node 1 to
\* node 2.
C15_Witness ==
    /\ last_op = "update_position"
    /\ scene_items = <<1, 2>>
    /\ Ends(arrow_fields[1]) = <<1, 2>>
    /\ Ends(arrow_fields[2]) = <<1, 2>>
    /\ arrow_fields[1].is_curved
    /\ arrow_fields[1].curve_offset = 30

\* ------------------------------------------------ claims on the objects
\* C16: after any sequence of placements, drags, PlaceObject, MoveObject
\* and DeleteItems redo and undo, and grid-size changes, no two Object
\* nodes of the scene are at the same grid intersection.
C16_NoSharedGridPosition ==
    \A m, n \in scene_nodes :
        m # n => snap_to_grid(GridSize, positions[m]) # snap_to_grid(GridSize, positions[n])

\* ------------------------------------------- claims on the overlap test
\* The two lines share both endpoints, within 1 unit, in either order.
ShareBothEndpoints(line1, line2) ==
    \/ Within1(line1.start, line2.start) /\ Within1(line1.end, line2.end)
    \/ Within1(line1.start, line2.end) /\ Within1(line1.end, line2.start)

\* The axis line1 runs along (1 for x, 2 for y) and the other one.
Along(line1) == IF line1.vector[1] # 0 THEN 1 ELSE 2
Across(line1) == 3 - Along(line1)

\* The range of a line projected on the axis, and what two ranges share.
RangeMin(line, ax) == Min2(line.start[ax], line.end[ax])
RangeMax(line, ax) == Max2(line.start[ax], line.end[ax])
RangeOverlap(line1, line2, ax) ==
    Min2(RangeMax(line1, ax), RangeMax(line2, ax))
        - Max2(RangeMin(line1, ax), RangeMin(line2, ax))
NearlyIdentical(line1, line2, ax) ==
    /\ Abs(RangeMin(line1, ax) - RangeMin(line2, ax)) < 5
    /\ Abs(RangeMax(line1, ax) - RangeMax(line2, ax)) < 5

\* Twice the distance of the midpoints across the axis.
MidDistanceX2(line1, line2, ax) ==
    Abs((line1.start[ax] + line1.end[ax]) - (line2.start[ax] + line2.end[ax]))

\* |cross| <= 1e-3 * |v1| * |v2|, both sides squared and divided by 1e6
CrossWithinThreshold(v1, v2) ==
    Cross(v1, v2) * Cross(v1, v2) <= (NormSq(v1) * NormSq(v2)) \div 1000000

ParallelAndOverlapping(line1, line2) ==
    /\ line1.vector # <<0, 0>>
    /\ line2.vector # <<0, 0>>
    /\ CrossWithinThreshold(line1.vector, line2.vector)
    /\ \/ RangeOverlap(line1, line2, Along(line1)) > 10
       \/ NearlyIdentical(line1, line2, Along(line1))
    /\ MidDistanceX2(line1, line2, Across(line1)) <= 2 * 50

\* C19: for two lines that do not share both endpoints,
\* _lines_are_parallel_and_overlapping is true exactly when both vectors
\* are longer than 1e-6, |cross| <= 1e-3 |v1| |v2|, the projected ranges
\* overlap by more than 10 or are nearly identical (both range ends less
\* than 5 apart), and the midpoints are at most 50 apart across the
\* direction; so an overlap of exactly 10 is no overlap and a distance of
\* exactly 50 is close enough.
C19_ParallelOverlapThresholds ==
    (/\ call.fn = "lines_are_parallel_and_overlapping"
     /\ ~ShareBothEndpoints(call.args.line1, call.args.line2))
        => (call.result <=> ParallelAndOverlapping(call.args.line1, call.args.line2))

\* The test answered for two parallel lines exactly 50 apart whose ranges
\* overlap by 11, and that answer was yes.
C19_Witness ==
    /\ call.fn = "lines_are_parallel_and_overlapping"
    /\ ~ShareBothEndpoints(call.args.line1, call.args.line2)
    /\ RangeOverlap(call.args.line1, call.args.line2, Along(call.args.line1)) = 11
    /\ MidDistanceX2(call.args.line1, call.args.line2, Across(call.args.line1)) = 100
    /\ Cross(call.args.line1.vector, call.args.line2.vector) = 0
    /\ call.result

\* ------------------------------------------ claims on the mixed-direction fan
\* Arrow a is in the scene between two different nodes, its parallel group
\* holds no arrow between the same two nodes, some arrow of the group
\* overlaps it visually and some arrow of the group points against it.
MixedDirectionCase(a, group) ==
    /\ InScene(a) /\ Complete(a) /\ ~IsSelfLoopArrow(a)
    /\ Len(group) > 0
    /\ \A i \in 1..Len(group) : ~same_endpoints(arrow_fields[a], arrow_fields[group[i]])
    /\ arrows_would_visually_overlap(World, a, group)
    /\ \E i \in 1..Len(group) : arrows_point_opposite_directions(World, a, group[i])

\* Twice (i - (n - 1) / 2) * 30, the sign flipped when x + 1000 * y < 0.
FanOffsetX2(a, group) ==
    (IF get_direction_factor(World, a) < 0 THEN -1 ELSE 1)
        * (2 * sorted_index(World, <<a>> \o group, a) - Len(group)) * 30

\* C20: in the no-shared-endpoint case with mixed directions, after
\* _update_curve_positioning the arrow's curve_offset is
\* (i - (n - 1) / 2) * 30, with i its index in the sorted list of the
\* arrow and its group and n the length of that list, the sign flipped
\* when x + 1000 * y of its direction is negative; for every n >= 2.
C20_MixedFanOffset ==
    CurvesAssigned =>
        \A a \in ArrowIds :
            (/\ MixedDirectionCase(a, find_parallel_arrows(World, a))
             /\ CurveFieldsCurrent(a))
                => 2 * arrow_fields[a].curve_offset
                       = FanOffsetX2(a, find_parallel_arrows(World, a))

\* ------------------------------------------ claims on the same-side rule
\* Arrow a is in the scene between two different nodes, its parallel group
\* holds no arrow between the same two nodes, some arrow of the group
\* overlaps it visually and no arrow of the group points against it.
SameDirectionCase(a, group) ==
    /\ InScene(a) /\ Complete(a) /\ ~IsSelfLoopArrow(a)
    /\ Len(group) > 0
    /\ \A i \in 1..Len(group) : ~same_endpoints(arrow_fields[a], arrow_fields[group[i]])
    /\ arrows_would_visually_overlap(World, a, group)
    /\ \A i \in 1..Len(group) :
          Dot(get_arrow_line(World, a).vector,
              get_arrow_line(World, group[i]).vector) >= 0

\* The centre-to-centre vector of arrow a rotated by 90 degrees, as the
\* integer vector of least length in its direction; the unit vector is
\* this one divided by its length.
Rotated(a) ==
    Primitive(<<-get_arrow_line(World, a).vector[2], get_arrow_line(World, a).vector[1]>>)

\* start_point + t * (end_point - start_point) + offset * unit, t in tenths
DisplacedPoint(fields, t10, unit) ==
    SymPoint(<<10 * fields.start_point[1]
                  + t10 * (fields.end_point[1] - fields.start_point[1]),
               10 * fields.start_point[2]
                  + t10 * (fields.end_point[2] - fields.start_point[2])>>,
             <<unit[1] * fields.curve_offset, unit[2] * fields.curve_offset>>,
             NormSq(unit))

\* C21: in the no-shared-endpoint case where no group member points against
\* the arrow and a visual overlap exists, after _update_curve_positioning
\* curve_offset = 30 * (i + 1) with i the arrow's index in the sorted list
\* of the arrow and its group, the stored curve direction is the unit
\* perpendicular of the arrow's own centre-to-centre vector, and both
\* control points are displaced along it by the offset.
C21_SameSideOffsets ==
    CurvesAssigned =>
        \A a \in ArrowIds :
            SameDirectionCase(a, find_parallel_arrows(World, a)) =>
                /\ arrow_fields[a].is_curved
                /\ arrow_fields[a].curve_offset
                       = 30 * (sorted_index(World, <<a>> \o find_parallel_arrows(World, a), a) + 1)
                /\ arrow_fields[a].curve_direction = Rotated(a)
                /\ arrow_fields[a].control_point_1
                       = DisplacedPoint(arrow_fields[a], 3, Rotated(a))
                /\ arrow_fields[a].control_point_2
                       = DisplacedPoint(arrow_fields[a], 7, Rotated(a))

\* Both arrows of the scene were curved by the same-side rule, with the
\* offsets 30 and 60.
C21_Witness ==
    /\ CurvesAssigned
    /\ \A a \in ArrowIds : SameDirectionCase(a, find_parallel_arrows(World, a))
    /\ arrow_fields[1].curve_offset = 30
    /\ arrow_fields[2].curve_offset = 60

\* ------------------------------------------ claims on the parallel groups
\* The group of arrow a is not empty and holds no arrow between a's two
\* nodes.
NoSharedEndpointGroup(a, group) ==
    /\ InScene(a) /\ Complete(a)
    /\ Len(group) > 0
    /\ \A i \in 1..Len(group) : ~same_endpoints(arrow_fields[a], arrow_fields[group[i]])

\* A position in grid steps.
Cell(n) == <<positions[n][1] \div GridSize, positions[n][2] \div GridSize>>

\* The distance between the midpoints of arrows a and b, measured across
\* the direction of a, is at least 6: with the midpoints doubled and all
\* lengths in grid steps, |D x v| * GridSize >= 2 * 6 * |v|.
MidpointsApart(a, b) ==
    LET v == Sub(Cell(arrow_fields[a].end_node), Cell(arrow_fields[a].start_node))
        D == Sub(Add(Cell(arrow_fields[b].start_node), Cell(arrow_fields[b].end_node)),
                 Add(Cell(arrow_fields[a].start_node), Cell(arrow_fields[a].end_node)))
    IN GridSize * GridSize * Cross(D, v) * Cross(D, v) >= 4 * 6 * 6 * NormSq(v)

\* C22: an arrow whose group is not empty, with no group member sharing
\* both endpoints with it and no group member's midpoint less than 6 units
\* away across its direction, is left by _update_curve_positioning with
\* is_curved = false and curve_offset = 0.
C22_NoVisualOverlapStraight ==
    CurvesAssigned =>
        \A a \in GroupArrows :
            (/\ NoSharedEndpointGroup(a, find_parallel_arrows(World, a))
             /\ \A i \in 1..Len(find_parallel_arrows(World, a)) :
                   MidpointsApart(a, find_parallel_arrows(World, a)[i]))
                => /\ ~arrow_fields[a].is_curved
                   /\ arrow_fields[a].curve_offset = 0

\* Arrows 1 and 2 run along the two parallel lines 30 apart, each is the
\* other's group, and both were left straight.
C22_Witness ==
    /\ CurvesAssigned
    /\ positions[2] = <<3 * GridSize, 4 * GridSize>>
    /\ Ends(arrow_fields[1]) = <<1, 2>>
    /\ Ends(arrow_fields[2]) = <<3, 4>>
    /\ find_parallel_arrows(World, 1) = <<2>>
    /\ find_parallel_arrows(World, 2) = <<1>>
    /\ ~arrow_fields[1].is_curved
    /\ ~arrow_fields[2].is_curved

\* The arrows of the scene between the two nodes of arrow a, in either
\* order, a among them.
SharedEndpointSubgroup(a) ==
    {b \in GroupArrows :
        /\ InScene(b) /\ Complete(b)
        /\ {arrow_fields[b].start_node, arrow_fields[b].end_node}
              = {arrow_fields[a].start_node, arrow_fields[a].end_node}}

\* The index of arrow a in its subgroup sorted by id.
SubgroupIndex(a) ==
    Cardinality({b \in SharedEndpointSubgroup(a) : addr[b] < addr[a]})

\* C23: with more than two arrows between the same two nodes, the arrow at
\* index i of the n arrows sorted by id has curve_offset
\* (i - (n - 1) / 2) * 30, so that the n offsets are pairwise distinct and
\* symmetric about 0.
C23_SpreadOffsets ==
    CurvesAssigned =>
        \A a \in GroupArrows :
            (InScene(a) /\ Complete(a) /\ Cardinality(SharedEndpointSubgroup(a)) > 2)
                => /\ arrow_fields[a].is_curved
                   /\ 2 * arrow_fields[a].curve_offset
                         = (2 * SubgroupIndex(a)
                              - (Cardinality(SharedEndpointSubgroup(a)) - 1)) * 30
                   /\ \A b \in SharedEndpointSubgroup(a) \ {a} :
                         arrow_fields[b].curve_offset # arrow_fields[a].curve_offset
                   /\ \E b \in SharedEndpointSubgroup(a) :
                         arrow_fields[b].curve_offset = -arrow_fields[a].curve_offset

\* Three arrows between nodes 1 and 2, one of them pointing back, with the
\* offsets -30, 0 and 30.
C23_Witness ==
    /\ CurvesAssigned
    /\ Ends(arrow_fields[1]) = <<1, 2>>
    /\ Ends(arrow_fields[2]) = <<2, 1>>
    /\ Ends(arrow_fields[3]) = <<1, 2>>
    /\ \A a \in GroupArrows : InScene(a)
    /\ arrow_fields[1].curve_offset = -30
    /\ arrow_fields[2].curve_offset = 0
    /\ arrow_fields[3].curve_offset = 30

\* ------------------------------------------- claims on the loop geometry
\* The midpoint of the edge of node n on `side', and the unit vector that
\* points away from the node there.
EdgeMidpoint(n, side) ==
    CASE side = "top" -> <<positions[n][1], positions[n][2] - sizes[n][2] \div 2>>
      [] side = "bottom" -> <<positions[n][1], positions[n][2] + sizes[n][2] \div 2>>
      [] side = "left" -> <<positions[n][1] - sizes[n][1] \div 2, positions[n][2]>>
      [] OTHER -> <<positions[n][1] + sizes[n][1] \div 2, positions[n][2]>>

Outward(side) ==
    CASE side = "top" -> <<0, -1>>
      [] side = "bottom" -> <<0, 1>>
      [] side = "left" -> <<-1, 0>>
      [] OTHER -> <<1, 0>>

\* Point p lies on the edge of node n on `side'.
OnSideEdge(p, n, side) ==
    LET r == node_scene_rect(World, n)
    IN /\ r.l <= p[1] /\ p[1] <= r.r
       /\ r.t <= p[2] /\ p[2] <= r.b
       /\ CASE side = "top" -> p[2] = r.t
            [] side = "bottom" -> p[2] = r.b
            [] side = "left" -> p[1] = r.l
            [] OTHER -> p[1] = r.r

\* The self-loop placed last has radius 0.6 * max(w, h), its centre that
\* far outward of the midpoint of the chosen edge, and its two ends on the
\* edge, `apart' from each other with the midpoint halfway between them.
LoopGeometry(apart) ==
    LET a == last_placement.arrow
        n == arrow_fields[a].start_node
        side == last_placement.side
        f == arrow_fields[a]
    IN /\ f.is_self_loop
       /\ 5 * f.loop_radius = 3 * Max2(sizes[n][1], sizes[n][2])
       /\ f.loop_center = <<EdgeMidpoint(n, side)[1] + f.loop_radius * Outward(side)[1],
                            EdgeMidpoint(n, side)[2] + f.loop_radius * Outward(side)[2]>>
       /\ OnSideEdge(f.start_point, n, side)
       /\ OnSideEdge(f.end_point, n, side)
       /\ Add(f.start_point, f.end_point)
             = <<2 * EdgeMidpoint(n, side)[1], 2 * EdgeMidpoint(n, side)[2]>>
       /\ NormSq(Sub(f.end_point, f.start_point)) = apart * apart

\* C24: a self-loop placed on a side of a node of width w and height h has
\* loop_radius = 0.6 * max(w, h), its loop_center loop_radius outward from
\* the midpoint of that side's edge, and start_point and end_point on that
\* edge, 10 units apart, straddling the edge midpoint.
C24_LoopGeometry == last_placement.arrow # None => LoopGeometry(10)

\* What holds instead: the two ends are 10 units to either side of the
\* midpoint, 20 units apart.
C24_EndsTwentyApart == last_placement.arrow # None => LoopGeometry(2 * LoopGap)

\* The probe of `side' of node n starts at the node's edge on that side and
\* reaches 1.5 * max(width, height) outward from it.
ProbeStartsAtEdge(n, side) ==
    LET box == node_scene_rect(World, n)
        probe == side_area(World, n, side)
        reach == (3 * Max2(sizes[n][1], sizes[n][2])) \div 2
    IN CASE side = "top" -> probe.b = box.t /\ probe.t = box.t - reach
         [] side = "bottom" -> probe.t = box.b /\ probe.b = box.b + reach
         [] side = "left" -> probe.r = box.l /\ probe.l = box.l - reach
         [] OTHER -> probe.l = box.r /\ probe.r = box.r + reach

\* C25: each probe rectangle of the node a self-loop is placed on starts at
\* the corresponding edge of the node's bounding box and extends outward
\* from it by 1.5 * max(width, height): the top probe's lower side is the
\* top edge, the bottom probe's upper side the bottom edge, the left
\* probe's right side the left edge, the right probe's left side the right
\* edge.
C25_ProbesStartAtEdges ==
    last_placement.arrow # None =>
        \A i \in 1..Len(Sides) :
            ProbeStartsAtEdge(arrow_fields[last_placement.arrow].start_node, Sides[i])

\* What holds instead: the top and left probes end at the centre of the
\* node, the bottom and right probes start a full height or width past it;
\* each is 1.5 * max(width, height) deep.
C25_ProbesMeasuredFromCentre ==
    last_placement.arrow # None =>
        LET n == arrow_fields[last_placement.arrow].start_node
            reach == (3 * Max2(sizes[n][1], sizes[n][2])) \div 2
        IN /\ side_area(World, n, "top").b = positions[n][2]
           /\ side_area(World, n, "top").t = positions[n][2] - reach
           /\ side_area(World, n, "bottom").t = positions[n][2] + sizes[n][2]
           /\ side_area(World, n, "bottom").b = positions[n][2] + sizes[n][2] + reach
           /\ side_area(World, n, "left").r = positions[n][1]
           /\ side_area(World, n, "left").l = positions[n][1] - reach
           /\ side_area(World, n, "right").l = positions[n][1] + sizes[n][1]
           /\ side_area(World, n, "right").r = positions[n][1] + sizes[n][1] + reach

\* ------------------------------------------------ claims on the search
\* find_cycles has returned with every node BLACK and the path empty.
ReturnedAllBlack ==
    pc = "done" =>
        /\ \A n \in Range(cd_nodes) : node_states[n] = "BLACK"
        /\ current_path = <<>>
        /\ stack = <<>>

\* A step of the search changes a colour only from WHITE to GRAY or from
\* GRAY to BLACK.
ColoursAdvance ==
    pc = "roots" =>
        \A n \in Range(cd_nodes) :
            node_states'[n] # node_states[n] =>
                \/ node_states[n] = "WHITE" /\ node_states'[n] = "GRAY"
                \/ node_states[n] = "GRAY" /\ node_states'[n] = "BLACK"

\* C26: find_cycles terminates on every finite graph and turns each node
\* Gray exactly once: a colour only advances from White to Gray to Black,
\* a call that began returns, and when it returns every node of `nodes` is
\* Black and the DFS path list is empty.
C26_TerminatesAllBlack ==
    /\ []ReturnedAllBlack
    /\ [][ColoursAdvance]_vars
    /\ (pc = "roots") ~> (pc = "done")

\* A call on three nodes that found a cycle has returned.
C26_Witness ==
    /\ pc = "done"
    /\ Len(cd_nodes) = NumNodes
    /\ cycles # <<>>
    /\ \A n \in Range(cd_nodes) : node_states[n] = "BLACK"

\* ------------------------------------------ claims on the self-loop flag
\* C27: after any sequence of set_nodes and update_position calls that
\* leaves both ends of an arrow set, is_self_loop is true exactly when the
\* source and the target are the same node, also for an arrow that was a
\* self-loop before and now connects two distinct nodes.
C27_SelfLoopFlagFollowsEnds ==
    \A a \in ArrowIds :
        Complete(a) =>
            (arrow_fields[a].is_self_loop
                <=> arrow_fields[a].start_node = arrow_fields[a].end_node)

\* What holds instead: an arrow from a node to itself has the flag, and
\* the flag is never taken back.
C27_SelfLoopFlagOnlySet ==
    [][\A a \in ArrowIds :
          /\ (Complete(a)' /\ arrow_fields'[a].start_node = arrow_fields'[a].end_node)
                => arrow_fields'[a].is_self_loop
          /\ arrow_fields[a].is_self_loop => arrow_fields'[a].is_self_loop]_vars

\* --------------------------------------- claims on the sides of a pair
\* The control points of arrows a and b are displaced from their chords to
\* opposite sides: the displacements m / sqrt(n) point against each other.
DisplacedOppositeWays(a, b) ==
    /\ Dot(arrow_fields[a].control_point_1.m, arrow_fields[b].control_point_1.m) < 0
    /\ Dot(arrow_fields[a].control_point_2.m, arrow_fields[b].control_point_2.m) < 0

\* The Bezier curves of a and b are the same set of points: the same four
\* points, in the same or in the reverse order.
CurvesCoincide(a, b) ==
    LET curve(f) == <<Plain(f.start_point), f.control_point_1,
                      f.control_point_2, Plain(f.end_point)>>
    IN \/ curve(arrow_fields[a]) = curve(arrow_fields[b])
       \/ curve(arrow_fields[a]) = Reverse(curve(arrow_fields[b]))

\* The two arrows point the same way.
SameWay(a, b) ==
    /\ arrow_fields[a].start_node = arrow_fields[b].start_node
    /\ arrow_fields[a].end_node = arrow_fields[b].end_node

CurvedApart(a, b) ==
    /\ arrow_fields[a].is_curved /\ arrow_fields[b].is_curved
    /\ DisplacedOppositeWays(a, b)
    /\ ~CurvesCoincide(a, b)

\* C28: two arrows sharing both endpoints are curved to opposite sides of
\* the straight line between their nodes, when they point the same way and
\* when they point opposite ways: their control points are displaced in
\* opposite perpendicular directions in scene coordinates and the two
\* curves never coincide.
C28_PairCurvedToOppositeSides ==
    CurvesAssigned =>
        \A a, b \in ArrowIds :
            (ExactlyTwoShareEndpoints(a, b) /\ ~IsSelfLoopArrow(a)) => CurvedApart(a, b)

\* What holds instead: a pair pointing the same way is curved apart, and a
\* pair pointing opposite ways is drawn as one and the same curve.
C28_OppositePairCoincides ==
    CurvesAssigned =>
        \A a, b \in ArrowIds :
            (ExactlyTwoShareEndpoints(a, b) /\ ~IsSelfLoopArrow(a)) =>
                IF SameWay(a, b) THEN CurvedApart(a, b) ELSE CurvesCoincide(a, b)

\* ------------------------------------- claims on the same-side offsets
\* The parallel group of arrow a as a set.
GroupOf(a) == Range(find_parallel_arrows(World, a))

\* a and b are in each other's group and both are curved by the
\* same-direction rule.
SameSidePair(a, b) ==
    /\ a # b
    /\ b \in GroupOf(a) /\ a \in GroupOf(b)
    /\ SameDirectionCase(a, find_parallel_arrows(World, a))
    /\ SameDirectionCase(b, find_parallel_arrows(World, b))

\* C29: two arrows that are in each other's parallel group and are both
\* curved to the same side by the same-direction rule
\* (offset = 30 * (index + 1)) have different curve_offset values, also
\* when their groups differ because the relation is not transitive.
C29_SameSideOffsetsDiffer ==
    CurvesAssigned =>
        \A a, b \in GroupArrows :
            SameSidePair(a, b) =>
                arrow_fields[a].curve_offset # arrow_fields[b].curve_offset

\* What holds instead: the offsets differ when the two arrows have the
\* same arrows around them.
C29_SameGroupOffsetsDiffer ==
    CurvesAssigned =>
        \A a, b \in GroupArrows :
            (SameSidePair(a, b) /\ GroupOf(a) \cup {a} = GroupOf(b) \cup {b}) =>
                arrow_fields[a].curve_offset # arrow_fields[b].curve_offset

\* ---------------------------------------- claims on the colours of the DFS
\* The GRAY nodes are the nodes of current_path, each of them once.
GrayIsPath ==
    pc = "roots" =>
        /\ {n \in Range(cd_nodes) : node_states[n] = "GRAY"} = Range(current_path)
        /\ \A i, j \in 1..Len(current_path) :
              current_path[i] = current_path[j] => i = j

\* A BLACK node is BLACK after every step of the call.
BlackStays ==
    pc = "roots" =>
        \A n \in Range(cd_nodes) :
            node_states[n] = "BLACK" => node_states'[n] = "BLACK"

\* C30: at every step of the DFS inside find_cycles the Gray nodes are
\* exactly the nodes on current_path, current_path holds no node twice, and
\* a Black node never changes colour again during that call.
C30_GrayNodesAreThePath == []GrayIsPath /\ [][BlackStays]_vars

\* The search stands two nodes deep next to a node it has finished.
C30_Witness ==
    /\ pc = "roots"
    /\ Len(current_path) = 2
    /\ \E n \in Range(cd_nodes) : node_states[n] = "BLACK"
    /\ \E n \in Range(cd_nodes) : node_states[n] = "GRAY"

====
